---------------------------- MODULE Spec2Model ----------------------------
(***************************************************************************)
(* Model of the execution/item tracking engine of rpa_suite                *)
(* (src/rpa_suite/core/database.py, class Database) on its default,        *)
(* embedded backend (SQLiteAdapter): one shared connection in autocommit   *)
(* mode (commit and rollback are no-ops) and, since the adapter never      *)
(* issues PRAGMA foreign_keys, no enforcement of the declared foreign      *)
(* keys.                                                                   *)
(*                                                                         *)
(* The two tables are functions from the surrogate id to the row; the      *)
(* domain of the function is the set of rows that exist.  Ids come from    *)
(* AUTOINCREMENT sequences and are never reused.  Opaque columns (names,   *)
(* payloads, messages) are left out; a timestamp is NULL (0) or set (1).   *)
(***************************************************************************)
EXTENDS Integers, Sequences, FiniteSets, TLC

\* ------------------------------------------------------------------ bounds
\* Executions ever created (ids 1..MaxExecs).
MaxExecs == 2
\* Items ever created (ids 1..MaxItems).
MaxItems == 2
\* Longest batch handed to add_items.
MaxBatch == 2
\* Executions and items ever created under SpecQueue.
QueueExecs == 2
QueueItems == 2

\* Executions and items ever created under SpecClear.
ClearExecs == 2
ClearItems == 2

\* Items ever created under SpecWorker.
WorkerItems == 3

\* Executions ever created under SpecGuard.
GuardExecs == 2

\* Executions and items ever created under SpecWipe.
WipeExecs == 2
WipeItems == 2

\* Executions and items ever created under SpecOpen.
OpenExecs == 2
OpenItems == 2

\* Executions and items ever created under SpecFinish.
FinishExecs == 2
FinishItems == 2

\* Executions, items and logs ever created under SpecOwner.
OwnerExecs == 3
OwnerItems == 2
OwnerLogs == 2

\* Executions and log rows ever created under SpecLog.
LogExecs == 2
LogRows == 2

\* Execution and item rows of the store under SpecSafe.
SafeExecs == 2
SafeItems == 2

\* Item rows of the store under SpecRetry, and the retries of one item.
RetryItems == 2
RetryLimit == 2
LifeItems == 2
LifeRetries == 1
EraseExecs == 2
EraseItems == 2
EraseLogs == 2
MarkerExecs == 2
MarkerItems == 1
PeekItems == 2
PeekRetries == 1

\* Items ever created under SpecRace.
RaceItems == 2

\* Items ever created under SpecInsert, and the longest batch a caller hands
\* to add_items there.
InsertItems == 3
InsertBatch == 2

\* Executions ever created under SpecTwin.
TwinExecs == 3

\* Executions and items ever created under SpecTeardown.
TeardownExecs == 2
TeardownItems == 2

\* Executions, items and logs ever created under SpecTxn.
TxnExecs == 3
TxnItems == 2
TxnLogs == 1

\* Items ever created under SpecDrain.
DrainItems == 3

\* Priorities a caller passes (the documented scenario uses 0 and 5).
Priorities == {0, 5}

\* Batches a caller hands to add_items: the priorities of the items, in order.
Batches == UNION {[1..n -> Priorities] : n \in 0..MaxBatch}

ExecIds == 1..MaxExecs
ItemIds == 1..MaxItems

\* ---------------------------------------------------------------- constants
\* Python's None / SQL NULL for an id or a timestamp (ids start at 1).
None == 0
\* SQL NULL in an integer column whose values include 0.
Null == -1

\* CHECK constraint of the executions table.
ExecStatuses == {"running", "completed", "failed", "cancelled", "interrupted"}
\* Mutant: the status check of finish_execution against the whole enum.
FinishStatusesAnyEnum ==
    {"running", "completed", "failed", "cancelled", "interrupted"}

\* Statuses finish_execution accepts.
FinishStatuses == {"completed", "failed", "cancelled"}
\* The status argument a caller passes to finish_execution: any status of the
\* enum, or a string that is none of them.
FinishInputs == ExecStatuses \cup {"done"}
\* CHECK constraint of the items table.
ItemStatuses == {"pending", "queued", "processing", "success", "failed",
                 "skipped", "interrupted", "retrying"}
\* Mutant: finish_item accepting the non-terminal status pending.
ItemFinishStatusesWithPending == {"success", "failed", "skipped", "pending"}

\* Statuses finish_item accepts.
ItemFinishStatuses == {"success", "failed", "skipped"}

\* CONFIRMATION_CODES, and one string that is none of them.
CODE_DELETE_SUCCESS == "DELETE_SUCCESS"
CODE_DELETE_FAILED == "DELETE_FAILED"
CODE_DELETE_SUCCESS_EXECUTIONS == "DELETE_SUCCESS_EXECUTIONS"
CODE_DELETE_FAILED_EXECUTIONS == "DELETE_FAILED_EXECUTIONS"
ConfirmationInputs == {CODE_DELETE_SUCCESS, CODE_DELETE_FAILED,
                       CODE_DELETE_SUCCESS_EXECUTIONS,
                       CODE_DELETE_FAILED_EXECUTIONS, "no"}

VARIABLES
    executions,                  \* executions table: id -> row
    items,                       \* items table: id -> row
    nextExecId,                  \* AUTOINCREMENT sequence of executions
    nextItemId,                  \* AUTOINCREMENT sequence of items
    current,                     \* self._current_execution_id (None = 0)
    allow_reprocess_items,       \* self.allow_reprocess_items
    allow_reprocess_executions,  \* self.allow_reprocess_executions
    auto_detect,                 \* self.auto_detect: handlers registered
    ret,                         \* outcome of the last public call
    worker,                      \* the calling automation's dequeue loop
    logs,                        \* logs table: id -> row
    nextLogId,                   \* AUTOINCREMENT sequence of logs
    db_type                      \* self.db_type: the backend of the engine

vars == <<executions, items, nextExecId, nextItemId, current,
          allow_reprocess_items, allow_reprocess_executions, auto_detect, ret,
          worker, logs, nextLogId, db_type>>

store == <<executions, items, nextExecId, nextItemId>>
config == <<allow_reprocess_items, allow_reprocess_executions, auto_detect,
            db_type>>
logstore == <<logs, nextLogId>>

\* ------------------------------------------------------------ call outcomes
\* kind: "raised" (DatabaseError), "none" (None), "true" (True), "id", "count",
\* "ids"; val: the ids or the count returned, as a sequence.
Raised == [kind |-> "raised", val |-> <<>>]
RetNone == [kind |-> "none", val |-> <<>>]
RetTrue == [kind |-> "true", val |-> <<>>]
RetId(i) == [kind |-> "id", val |-> <<i>>]
RetCount(n) == [kind |-> "count", val |-> <<n>>]
\* A call that has not returned yet.
RetPending == [kind |-> "pending", val |-> <<>>]
RetIds(s) == [kind |-> "ids", val |-> s]

\* ------------------------------------------------------------------ helpers
\* Python truthiness of an Optional[int] (`if execution_id:`).
Truthy(x) == x # None /\ x # 0

\* A table without the rows in D (DELETE).
Without(table, D) == [k \in DOMAIN table \ D |-> table[k]]

\* Item ids in S as a sequence, ORDER BY queue_position ASC (ties by id).
RECURSIVE ByQueuePosition(_)
ByQueuePosition(S) ==
    IF S = {} THEN <<>>
    ELSE LET m == CHOOSE x \in S : \A y \in S :
                      \/ items[x].queue_position < items[y].queue_position
                      \/ /\ items[x].queue_position = items[y].queue_position
                         /\ x <= y
         IN <<m>> \o ByQueuePosition(S \ {m})

\* A set of ids as a sequence in ascending id order (rows in rowid order).
RECURSIVE SetToSeq(_)
SetToSeq(S) ==
    IF S = {} THEN <<>>
    ELSE LET m == CHOOSE x \in S : \A y \in S : x <= y
         IN <<m>> \o SetToSeq(S \ {m})

\* The first n elements of a sequence (LIMIT n).
Limit(s, n) == SubSeq(s, 1, IF Len(s) < n THEN Len(s) ELSE n)

\* Rows of the items table that belong to execution e.
ItemsOf(e) == {i \in DOMAIN items : items[i].execution_id = e}

\* COALESCE(MAX(queue_position), 0) over the items of execution e.
MaxQueuePosition(e) ==
    IF ItemsOf(e) = {} THEN 0
    ELSE CHOOSE p \in {items[i].queue_position : i \in ItemsOf(e)} :
             \A i \in ItemsOf(e) : items[i].queue_position <= p

\* Row inserted by start_execution (column defaults of create_executions_table).
NewExecution ==
    [status |-> "running", finished_properly |-> 0, allow_reprocess |-> 1,
     reprocess_count |-> 0, parent_execution_id |-> None,
     total_items |-> 0, successful_items |-> 0, failed_items |-> 0,
     interrupted_items |-> 0]

\* Row inserted by add_item / add_items (column defaults of create_items_table).
NewItem(e, prio, pos) ==
    [execution_id |-> e, status |-> "pending", priority |-> prio,
     queue_position |-> pos, started_at |-> None, allow_reprocess |-> 1,
     finished_at |-> None, execution_time_seconds |-> None,
     error_message |-> None, last_checkpoint |-> None, retry_count |-> 0]

\* The caller's loop when no worker is running: no position, nothing served.
NoWorker == [pc |-> "idle", item |-> None, served |-> <<>>]

\* -------------------------------------------------------------------- Init
\* Database.__init__ on a fresh store: empty tables, no current execution.
Init ==
    /\ executions = <<>>
    /\ items = <<>>
    /\ nextExecId = 1
    /\ nextItemId = 1
    /\ current = None
    /\ allow_reprocess_items = FALSE
    /\ allow_reprocess_executions \in BOOLEAN
    /\ auto_detect = TRUE
    /\ ret = RetNone
    /\ worker = NoWorker
    /\ logs = <<>>
    /\ nextLogId = 1
    /\ db_type = "sqlite"

\* ------------------------------------------------------ execution methods
\* Database.start_execution
start_execution ==
    /\ executions' = executions @@ (nextExecId :> NewExecution)
    /\ nextExecId' = nextExecId + 1
    /\ current' = nextExecId
    /\ ret' = RetId(nextExecId)
    /\ UNCHANGED <<items, nextItemId, config>>

\* SUM(CASE WHEN status = st THEN 1 ELSE 0 END) over the items of execution e:
\* NULL when the execution has no item row.
SumCase(e, st) ==
    IF ItemsOf(e) = {} THEN Null
    ELSE Cardinality({i \in ItemsOf(e) : items[i].status = st})

\* Mutant: finish_execution clearing the marker whatever execution it names.
FinishExecutionClearsMarkerAlways(e, status) ==
    /\ IF status \notin FinishStatuses \/ e \notin DOMAIN executions
       THEN /\ ret' = Raised
            /\ UNCHANGED <<executions, current>>
       ELSE /\ executions' = [executions EXCEPT ![e] =
                   [@ EXCEPT !.status = status,
                             !.finished_properly = 1,
                             !.total_items = Cardinality(ItemsOf(e)),
                             !.successful_items = SumCase(e, "success"),
                             !.failed_items = SumCase(e, "failed"),
                             !.interrupted_items = SumCase(e, "interrupted")]]
            /\ current' = None
            /\ ret' = RetTrue
    /\ UNCHANGED <<items, nextExecId, nextItemId, config>>

\* Database.finish_execution: the status check, the row lookup, the item
\* counters recomputed from the items table, one UPDATE by id, the marker.
finish_execution(e, status) ==
    /\ IF status \notin FinishStatuses \/ e \notin DOMAIN executions
       THEN /\ ret' = Raised
            /\ UNCHANGED <<executions, current>>
       ELSE /\ executions' = [executions EXCEPT ![e] =
                   [@ EXCEPT !.status = status,
                             !.finished_properly = 1,
                             !.total_items = Cardinality(ItemsOf(e)),
                             !.successful_items = SumCase(e, "success"),
                             !.failed_items = SumCase(e, "failed"),
                             !.interrupted_items = SumCase(e, "interrupted")]]
            /\ current' = IF current = e THEN None ELSE current
            /\ ret' = RetTrue
    /\ UNCHANGED <<items, nextExecId, nextItemId, config>>

\* finish_execution up to and including the commit of its UPDATE: the call
\* has not returned and the marker is not yet cleared.  A signal handler can
\* run at this point.
FinishExecutionUpdate(e, status) ==
    /\ IF status \notin FinishStatuses \/ e \notin DOMAIN executions
       THEN /\ ret' = Raised
            /\ UNCHANGED executions
       ELSE /\ executions' = [executions EXCEPT ![e] =
                   [@ EXCEPT !.status = status,
                             !.finished_properly = 1,
                             !.total_items = Cardinality(ItemsOf(e)),
                             !.successful_items = SumCase(e, "success"),
                             !.failed_items = SumCase(e, "failed"),
                             !.interrupted_items = SumCase(e, "interrupted")]]
            /\ ret' = RetPending
    /\ UNCHANGED <<items, nextExecId, nextItemId, current, config>>

\* The rest of finish_execution: the marker is cleared when it names the
\* finished execution, True is returned.
FinishExecutionClearMarker(e) ==
    /\ current' = IF current = e THEN None ELSE current
    /\ ret' = RetTrue
    /\ UNCHANGED <<store, config>>

\* Mutant: an UPDATE by id that sets the status alone, whatever the row's
\* status and without resetting finished_properly.
MarkExecutionInterruptedStatusOnly(e) ==
    [x \in DOMAIN executions |->
        IF x = e THEN [executions[x] EXCEPT !.status = "interrupted"]
                 ELSE executions[x]]

\* Mutant: the UPDATE of _mark_execution_interrupted without the condition
\* on the status.
MarkExecutionInterruptedAnyStatus(e) ==
    [x \in DOMAIN executions |->
        IF x = e
        THEN [executions[x] EXCEPT !.status = "interrupted",
                                   !.finished_properly = 0]
        ELSE executions[x]]

\* Database._mark_execution_interrupted: UPDATE ... WHERE id = ? AND
\* status = 'running'.
MarkExecutionInterrupted(e) ==
    [x \in DOMAIN executions |->
        IF x = e /\ executions[x].status = "running"
        THEN [executions[x] EXCEPT !.status = "interrupted",
                                   !.finished_properly = 0]
        ELSE executions[x]]

\* Mutant: an exit hook that marks every running execution.
HandleExitMarkingEveryRunning ==
    /\ auto_detect
    /\ executions' = [x \in DOMAIN executions |->
           IF executions[x].status = "running"
           THEN [executions[x] EXCEPT !.status = "interrupted",
                                      !.finished_properly = 0]
           ELSE executions[x]]
    /\ ret' = RetNone
    /\ UNCHANGED <<items, nextExecId, nextItemId, current, config>>

\* Database._handle_exit (atexit hook, registered when auto_detect is set).
HandleExit ==
    /\ auto_detect
    /\ executions' = IF Truthy(current) THEN MarkExecutionInterrupted(current)
                                        ELSE executions
    /\ ret' = RetNone
    /\ UNCHANGED <<items, nextExecId, nextItemId, current, config>>

\* Database._handle_signal (SIGTERM / SIGINT handler, same body).
HandleSignal ==
    /\ auto_detect
    /\ executions' = IF Truthy(current) THEN MarkExecutionInterrupted(current)
                                        ELSE executions
    /\ ret' = RetNone
    /\ UNCHANGED <<items, nextExecId, nextItemId, current, config>>

\* Mutant: the handlers and _mark_execution_interrupted without their except
\* clauses, so that a failed UPDATE propagates.
HandlerOutcomePropagating(failed) == IF failed THEN Raised ELSE RetNone

\* What a handler hands back to the interpreter: _mark_execution_interrupted
\* and the handler each wrap their body in try / except Exception: pass, so a
\* failed UPDATE (closed connection, store error) ends as a normal return.
HandlerOutcome(failed) == RetNone

\* Database._handle_exit when the UPDATE raises: execute_query fails before
\* any row is written (the connection is in autocommit mode).
HandleExitFailing ==
    /\ auto_detect
    /\ Truthy(current)
    /\ ret' = HandlerOutcome(TRUE)
    /\ UNCHANGED <<store, current, config>>

\* Database._handle_signal when the UPDATE raises.
HandleSignalFailing ==
    /\ auto_detect
    /\ Truthy(current)
    /\ ret' = HandlerOutcome(TRUE)
    /\ UNCHANGED <<store, current, config>>

\* Mutant: the UPDATE of the sweep without its WHERE clause.
SweepEveryRow == DOMAIN executions

\* Rows detect_and_mark_interrupted_executions updates: WHERE status =
\* 'running' AND finished_properly = 0.
SweepTargets ==
    {e \in DOMAIN executions : /\ executions[e].status = "running"
                               /\ executions[e].finished_properly = 0}

\* Database.detect_and_mark_interrupted_executions: the UPDATE, then the ids of
\* every row WHERE status = 'interrupted' AND finished_properly = 0.
detect_and_mark_interrupted_executions ==
    /\ executions' = [e \in DOMAIN executions |->
           IF e \in SweepTargets
           THEN [executions[e] EXCEPT !.status = "interrupted",
                                      !.finished_properly = 0]
           ELSE executions[e]]
    /\ ret' = RetIds(SetToSeq({e \in DOMAIN executions :
                   /\ executions'[e].status = "interrupted"
                   /\ executions'[e].finished_properly = 0}))
    /\ UNCHANGED <<items, nextExecId, nextItemId, current, config>>

\* ----------------------------------------------------------- item methods
\* Mutant: the total_items UPDATE adding one whatever the number of rows.
AddOneToTotal(e, n) ==
    [x \in DOMAIN executions |->
        IF x = e THEN [executions[x] EXCEPT !.total_items = @ + 1]
                 ELSE executions[x]]

\* UPDATE executions SET total_items = total_items + n WHERE id = e.
AddToTotal(e, n) ==
    [x \in DOMAIN executions |->
        IF x = e THEN [executions[x] EXCEPT !.total_items = @ + n]
                 ELSE executions[x]]

\* Database.add_item: next position, INSERT, total_items + 1.
add_item(e, prio) ==
    /\ items' = items @@ (nextItemId :> NewItem(e, prio, MaxQueuePosition(e) + 1))
    /\ nextItemId' = nextItemId + 1
    /\ executions' = AddToTotal(e, 1)
    /\ ret' = RetId(nextItemId)
    /\ UNCHANGED <<nextExecId, current, config>>

\* Mutant: a batch whose rows all take the start position.
BatchRowsOnePosition(e, batch) ==
    [k \in nextItemId..(nextItemId + Len(batch) - 1) |->
        NewItem(e, batch[k - nextItemId + 1], MaxQueuePosition(e) + 1)]

\* Rows add_items inserts for the batch (a sequence of priorities): ids in input
\* order, positions start_position + idx.
BatchRows(e, batch) ==
    [k \in nextItemId..(nextItemId + Len(batch) - 1) |->
        NewItem(e, batch[k - nextItemId + 1],
                MaxQueuePosition(e) + 1 + (k - nextItemId))]

\* Mutant: the id re-query of add_items without its queue_position filter.
RecoverIdsAnyPosition(t, e, start, n) ==
    LET S == {i \in DOMAIN t : t[i].execution_id = e}
        RECURSIVE Ordered(_)
        Ordered(R) ==
            IF R = {} THEN <<>>
            ELSE LET m == CHOOSE x \in R : \A y \in R :
                              \/ t[x].queue_position < t[y].queue_position
                              \/ /\ t[x].queue_position = t[y].queue_position
                                 /\ x <= y
                 IN <<m>> \o Ordered(R \ {m})
    IN Limit(Ordered(S), n)

\* The id re-query of add_items on table t: SELECT id WHERE execution_id = e AND
\* queue_position >= start ORDER BY queue_position ASC LIMIT n.
RecoverIds(t, e, start, n) ==
    LET S == {i \in DOMAIN t : /\ t[i].execution_id = e
                               /\ t[i].queue_position >= start}
        RECURSIVE Ordered(_)
        Ordered(R) ==
            IF R = {} THEN <<>>
            ELSE LET m == CHOOSE x \in R : \A y \in R :
                              \/ t[x].queue_position < t[y].queue_position
                              \/ /\ t[x].queue_position = t[y].queue_position
                                 /\ x <= y
                 IN <<m>> \o Ordered(R \ {m})
    IN Limit(Ordered(S), n)

\* Database.add_items
add_items(e, batch) ==
    IF Len(batch) = 0
    THEN /\ ret' = RetIds(<<>>)
         /\ UNCHANGED <<store, current, config>>
    ELSE /\ items' = items @@ BatchRows(e, batch)
         /\ nextItemId' = nextItemId + Len(batch)
         /\ executions' = AddToTotal(e, Len(batch))
         /\ ret' = RetIds(RecoverIds(items', e, MaxQueuePosition(e) + 1, Len(batch)))
         /\ UNCHANGED <<nextExecId, current, config>>

\* The include_interrupted argument: None, True or False.
IncludeInputs == {"None", "True", "False"}

\* Mutant: the status filter taken from the engine's policy alone, the
\* caller's include_interrupted argument ignored.
StatusFilterPolicyOnly(inc) ==
    IF allow_reprocess_items
    THEN {"pending", "queued", "interrupted"}
    ELSE {"pending", "queued"}

\* status_filter of get_next_item_from_queue.
StatusFilter(inc) ==
    IF (IF inc = "None" THEN allow_reprocess_items ELSE inc = "True")
    THEN {"pending", "queued", "interrupted"}
    ELSE {"pending", "queued"}

\* Mutant: the SELECT with the queue_position order reversed (priority DESC,
\* queue_position DESC).
QueueHeadLifo(e, inc) ==
    LET M == {i \in DOMAIN items : /\ items[i].execution_id = e
                                   /\ items[i].status \in StatusFilter(inc)}
    IN {i \in M : \A j \in M :
           \/ items[i].priority > items[j].priority
           \/ /\ items[i].priority = items[j].priority
              /\ items[i].queue_position >= items[j].queue_position}

\* Mutant: the SELECT ordered by queue_position alone.
QueueHeadFifo(e, inc) ==
    LET M == {i \in DOMAIN items : /\ items[i].execution_id = e
                                   /\ items[i].status \in StatusFilter(inc)}
    IN {i \in M : \A j \in M :
           items[i].queue_position <= items[j].queue_position}

\* Rows the SELECT of get_next_item_from_queue can return first: WHERE
\* execution_id = e AND status IN filter ORDER BY priority DESC, queue_position
\* ASC LIMIT 1 (rows equal in both keys come in an unspecified order).
QueueHead(e, inc) ==
    LET M == {i \in ItemsOf(e) : items[i].status \in StatusFilter(inc)}
    IN {i \in M : \A j \in M :
           \/ items[i].priority > items[j].priority
           \/ /\ items[i].priority = items[j].priority
              /\ items[i].queue_position <= items[j].queue_position}

\* Mutant: a dequeue that marks the row it returns as processing.
GetNextItemMarkingProcessing(e, inc) ==
    /\ IF QueueHead(e, inc) = {}
       THEN ret' = RetNone /\ UNCHANGED items
       ELSE \E i \in QueueHead(e, inc) :
               /\ ret' = RetId(i)
               /\ items' = [items EXCEPT ![i].status = "processing"]
    /\ UNCHANGED <<executions, nextExecId, nextItemId, current, config>>

\* Database.get_next_item_from_queue
get_next_item_from_queue(e, inc) ==
    /\ IF QueueHead(e, inc) = {}
       THEN ret' = RetNone
       ELSE \E i \in QueueHead(e, inc) : ret' = RetId(i)
    /\ UNCHANGED <<store, current, config>>

\* Mutant: the UPDATE of start_processing_item without its status condition.
StartableAnyStatus == ItemStatuses

\* Statuses start_processing_item moves to processing.
StartableStatuses == {"pending", "queued", "interrupted"}

\* Mutant: start_processing_item reporting False when its UPDATE matched no
\* row.
StartProcessingItemReportingMiss(i) ==
    /\ items' = [x \in DOMAIN items |->
           IF x = i /\ items[x].status \in StartableStatuses
           THEN [items[x] EXCEPT !.status = "processing", !.started_at = 1]
           ELSE items[x]]
    /\ ret' = IF i \in DOMAIN items /\ items[i].status \in StartableStatuses
              THEN RetTrue
              ELSE [kind |-> "false", val |-> <<>>]
    /\ UNCHANGED <<executions, nextExecId, nextItemId, current, config>>

\* Database.start_processing_item: one conditional UPDATE, True returned.
start_processing_item(i) ==
    /\ items' = [x \in DOMAIN items |->
           IF x = i /\ items[x].status \in StartableStatuses
           THEN [items[x] EXCEPT !.status = "processing", !.started_at = 1]
           ELSE items[x]]
    /\ ret' = RetTrue
    /\ UNCHANGED <<executions, nextExecId, nextItemId, current, config>>

\* The counter UPDATE of finish_item.  Inside each subquery the column
\* execution_id is the one of the items table on both sides of the comparison,
\* so the count runs over the items of all executions.
FinishItemCounters(t, e) ==
    [x \in DOMAIN executions |->
        IF x = e
        THEN [executions[x] EXCEPT
                 !.successful_items =
                     Cardinality({j \in DOMAIN t : t[j].status = "success"}),
                 !.failed_items =
                     Cardinality({j \in DOMAIN t : t[j].status = "failed"})]
        ELSE executions[x]]

\* The item UPDATE of finish_item, called without error_message and notes:
\* status, finished_at = now, execution_time_seconds (None when the item was
\* never started), error_message = None.
FinishedRow(row, status) ==
    [row EXCEPT !.status = status,
                !.finished_at = 1,
                !.execution_time_seconds =
                    IF Truthy(row.started_at) THEN 1 ELSE None,
                !.error_message = None]

\* Mutant: finish_item whose UPDATE by id silently matches no row when the
\* item is unknown.
FinishItemSilentOnUnknown(i, status) ==
    /\ IF status \notin ItemFinishStatuses
       THEN /\ ret' = Raised
            /\ UNCHANGED <<executions, items>>
       ELSE IF i \notin DOMAIN items
       THEN /\ ret' = RetTrue
            /\ UNCHANGED <<executions, items>>
       ELSE /\ items' = [items EXCEPT ![i] = FinishedRow(items[i], status)]
            /\ executions' = FinishItemCounters(items', items[i].execution_id)
            /\ ret' = RetTrue
    /\ UNCHANGED <<nextExecId, nextItemId, current, config>>

\* Database.finish_item
finish_item(i, status) ==
    /\ IF status \notin ItemFinishStatuses \/ i \notin DOMAIN items
       THEN /\ ret' = Raised
            /\ UNCHANGED <<executions, items>>
       ELSE /\ items' = [items EXCEPT ![i] = FinishedRow(items[i], status)]
            /\ executions' = FinishItemCounters(items', items[i].execution_id)
            /\ ret' = RetTrue
    /\ UNCHANGED <<nextExecId, nextItemId, current, config>>

\* Database.detect_and_mark_interrupted_items
detect_and_mark_interrupted_items ==
    /\ items' = [i \in DOMAIN items |->
           IF items[i].status = "processing"
           THEN [items[i] EXCEPT !.status = "interrupted"]
           ELSE items[i]]
    /\ ret' = RetIds(SetToSeq({i \in DOMAIN items :
                                  items'[i].status = "interrupted"}))
    /\ UNCHANGED <<executions, nextExecId, nextItemId, current, config>>

\* Database.update_checkpoint: one UPDATE by id, True returned.
update_checkpoint(i) ==
    /\ items' = [x \in DOMAIN items |->
           IF x = i THEN [items[x] EXCEPT !.last_checkpoint = 1] ELSE items[x]]
    /\ ret' = RetTrue
    /\ UNCHANGED <<executions, nextExecId, nextItemId, current, config>>

\* --------------------------------------------------------- reprocessing
\* Mutant: can_reprocess_item without the row's own allow_reprocess flag.
CanReprocessItemIgnoringFlag(i) ==
    /\ i \in DOMAIN items
    /\ items[i].status = "interrupted"
    /\ allow_reprocess_items

\* Database.can_reprocess_item
can_reprocess_item(i) ==
    /\ i \in DOMAIN items
    /\ items[i].status = "interrupted"
    /\ items[i].allow_reprocess = 1
    /\ allow_reprocess_items

\* Database.reprocess_interrupted_item
reprocess_interrupted_item(i) ==
    IF ~can_reprocess_item(i)
    THEN /\ ret' = Raised
         /\ UNCHANGED <<store, current, config>>
    ELSE /\ items' = [items EXCEPT ![i] =
                [@ EXCEPT !.status = "pending",
                          !.started_at = None,
                          !.finished_at = None,
                          !.execution_time_seconds = None,
                          !.error_message = None,
                          !.last_checkpoint = None,
                          !.retry_count = @ + 1]]
         /\ ret' = RetTrue
         /\ UNCHANGED <<executions, nextExecId, nextItemId, current, config>>

\* Mutant: can_reprocess_execution without the engine's policy flag.
CanReprocessIgnoringPolicy(e) ==
    /\ e \in DOMAIN executions
    /\ executions[e].status = "interrupted"
    /\ executions[e].allow_reprocess = 1

\* Database.can_reprocess_execution
can_reprocess_execution(e) ==
    /\ e \in DOMAIN executions
    /\ executions[e].status = "interrupted"
    /\ executions[e].allow_reprocess = 1
    /\ allow_reprocess_executions

\* Items reprocess_interrupted_execution copies: those of get_items(e), ORDER BY
\* queue_position ASC, and only inside `if reset_items_status`.
CopiedItems(e, keep_items, reset_items_status) ==
    IF keep_items /\ reset_items_status THEN ByQueuePosition(ItemsOf(e)) ELSE <<>>

\* The rows inserted for the copied items, in that order.
CopyRows(new, src) ==
    [k \in nextItemId..(nextItemId + Len(src) - 1) |->
        LET it == items[src[k - nextItemId + 1]]
        IN [execution_id |-> new, status |-> "pending",
            priority |-> it.priority, queue_position |-> it.queue_position,
            started_at |-> None, allow_reprocess |-> it.allow_reprocess,
            finished_at |-> None, execution_time_seconds |-> None,
            error_message |-> None, last_checkpoint |-> None,
            retry_count |-> 0]]

\* The UPDATE of reprocess_interrupted_execution, with the parameters
\* (execution_id, new_exec_id): SET parent_execution_id = <first>,
\* reprocess_count = reprocess_count + 1 WHERE id = <second>.
LinkReprocess(t, orig, new) ==
    [t EXCEPT ![new] = [@ EXCEPT !.parent_execution_id = orig,
                                 !.reprocess_count = @ + 1]]

\* Database.reprocess_interrupted_execution
reprocess_interrupted_execution(e, keep_items, reset_items_status) ==
    IF ~can_reprocess_execution(e)
    THEN /\ ret' = RetNone
         /\ UNCHANGED <<store, current, config>>
    ELSE LET src == CopiedItems(e, keep_items, reset_items_status)
         IN /\ executions' = LinkReprocess(
                   executions @@ (nextExecId :> NewExecution), e, nextExecId)
            /\ nextExecId' = nextExecId + 1
            /\ current' = nextExecId
            /\ items' = items @@ CopyRows(nextExecId, src)
            /\ nextItemId' = nextItemId + Len(src)
            /\ ret' = RetId(nextExecId)
            /\ UNCHANGED config

\* ----------------------------------------------------------- safe clears
\* Rows matched by DELETE FROM items WHERE [execution_id = e AND] status IN
\* ('pending', 'queued').
PendingTargets(e) ==
    {i \in DOMAIN items : /\ items[i].status \in {"pending", "queued"}
                          /\ Truthy(e) => items[i].execution_id = e}

\* Database.clear_pending_items
clear_pending_items(e) ==
    /\ items' = Without(items, PendingTargets(e))
    /\ ret' = RetCount(Cardinality(PendingTargets(e)))
    /\ UNCHANGED <<executions, nextExecId, nextItemId, current, config>>

\* Mutant: the interrupted-item DELETE without its allow_reprocess = 0 filter.
InterruptedItemTargetsUnfiltered(e, allow_reprocess_check) ==
    {i \in DOMAIN items : /\ items[i].status = "interrupted"
                          /\ Truthy(e) => items[i].execution_id = e}

\* Rows matched by DELETE FROM items WHERE [execution_id = e AND] status =
\* 'interrupted' [AND allow_reprocess = 0].
InterruptedItemTargets(e, allow_reprocess_check) ==
    {i \in DOMAIN items : /\ items[i].status = "interrupted"
                          /\ Truthy(e) => items[i].execution_id = e
                          /\ allow_reprocess_check => items[i].allow_reprocess = 0}

\* Database.clear_interrupted_items
clear_interrupted_items(e, allow_reprocess_check) ==
    /\ items' = Without(items, InterruptedItemTargets(e, allow_reprocess_check))
    /\ ret' = RetCount(Cardinality(
                   InterruptedItemTargets(e, allow_reprocess_check)))
    /\ UNCHANGED <<executions, nextExecId, nextItemId, current, config>>

\* Rows matched by DELETE FROM executions WHERE status = 'interrupted'
\* [AND allow_reprocess = 0].
InterruptedExecutionTargets(allow_reprocess_check) ==
    {e \in DOMAIN executions :
        /\ executions[e].status = "interrupted"
        /\ allow_reprocess_check => executions[e].allow_reprocess = 0}

\* Database.clear_interrupted_executions: the DELETE touches the executions
\* table only; the embedded connection never turns foreign keys on, so no row
\* of items or logs is cascaded.
clear_interrupted_executions(allow_reprocess_check) ==
    /\ executions' = Without(executions,
                             InterruptedExecutionTargets(allow_reprocess_check))
    /\ ret' = RetCount(Cardinality(
                   InterruptedExecutionTargets(allow_reprocess_check)))
    /\ UNCHANGED <<items, nextExecId, nextItemId, current, config>>

\* ------------------------------------------------------ protected clears
\* Mutant: the confirmation reduced to the confirm flag.
ConfirmedFlagOnly(confirm, code, token) == confirm

\* The two checks that open every protected clear: `if not confirm: raise`,
\* then `if confirmation_code != CONFIRMATION_CODES[...]: raise`.
Confirmed(confirm, code, token) == confirm /\ code = token

\* Rows matched by DELETE FROM items WHERE [execution_id = e AND] status = st;
\* the execution condition is present only when `if execution_id:` holds.
ItemTargets(e, st) ==
    {i \in DOMAIN items : /\ items[i].status = st
                          /\ Truthy(e) => items[i].execution_id = e}

\* Rows matched by DELETE FROM executions WHERE status = st.
ExecutionTargets(st) == {e \in DOMAIN executions : executions[e].status = st}

\* Database.clear_successful_items
clear_successful_items(e, confirm, code) ==
    IF ~Confirmed(confirm, code, CODE_DELETE_SUCCESS)
    THEN /\ ret' = Raised
         /\ UNCHANGED <<store, current, config>>
    ELSE /\ items' = Without(items, ItemTargets(e, "success"))
         /\ ret' = RetCount(Cardinality(ItemTargets(e, "success")))
         /\ UNCHANGED <<executions, nextExecId, nextItemId, current, config>>

\* Database.clear_failed_items
clear_failed_items(e, confirm, code) ==
    IF ~Confirmed(confirm, code, CODE_DELETE_FAILED)
    THEN /\ ret' = Raised
         /\ UNCHANGED <<store, current, config>>
    ELSE /\ items' = Without(items, ItemTargets(e, "failed"))
         /\ ret' = RetCount(Cardinality(ItemTargets(e, "failed")))
         /\ UNCHANGED <<executions, nextExecId, nextItemId, current, config>>

\* Database.clear_successful_executions.  The connection never enables
\* foreign keys, so the items of a deleted execution stay in their table.
clear_successful_executions(confirm, code) ==
    IF ~Confirmed(confirm, code, CODE_DELETE_SUCCESS_EXECUTIONS)
    THEN /\ ret' = Raised
         /\ UNCHANGED <<store, current, config>>
    ELSE /\ executions' = Without(executions, ExecutionTargets("completed"))
         /\ ret' = RetCount(Cardinality(ExecutionTargets("completed")))
         /\ UNCHANGED <<items, nextExecId, nextItemId, current, config>>

\* Database.clear_failed_executions
clear_failed_executions(confirm, code) ==
    IF ~Confirmed(confirm, code, CODE_DELETE_FAILED_EXECUTIONS)
    THEN /\ ret' = Raised
         /\ UNCHANGED <<store, current, config>>
    ELSE /\ executions' = Without(executions, ExecutionTargets("failed"))
         /\ ret' = RetCount(Cardinality(ExecutionTargets("failed")))
         /\ UNCHANGED <<items, nextExecId, nextItemId, current, config>>

\* Database.clear_executions_table: the signature takes the flag only; the
\* DELETE has no WHERE clause and the AUTOINCREMENT sequence is kept.
clear_executions_table(confirm) ==
    IF ~confirm
    THEN /\ ret' = Raised
         /\ UNCHANGED <<store, current, config>>
    ELSE /\ executions' = <<>>
         /\ ret' = RetTrue
         /\ UNCHANGED <<items, nextExecId, nextItemId, current, config>>

\* Database.clear_items_table
clear_items_table(confirm) ==
    IF ~confirm
    THEN /\ ret' = Raised
         /\ UNCHANGED <<store, current, config>>
    ELSE /\ items' = <<>>
         /\ ret' = RetTrue
         /\ UNCHANGED <<executions, nextExecId, nextItemId, current, config>>

\* Database.clear_logs_table
clear_logs_table(confirm) ==
    IF ~confirm
    THEN /\ ret' = Raised
         /\ UNCHANGED <<store, logstore, current, config>>
    ELSE /\ logs' = <<>>
         /\ ret' = RetTrue
         /\ UNCHANGED <<store, nextLogId, current, config>>

\* Database.clear_database: items, then logs, then executions.
clear_database(confirm) ==
    IF ~confirm
    THEN /\ ret' = Raised
         /\ UNCHANGED <<store, logstore, current, config>>
    ELSE /\ items' = <<>>
         /\ logs' = <<>>
         /\ executions' = <<>>
         /\ ret' = RetTrue
         /\ UNCHANGED <<nextExecId, nextItemId, nextLogId, current, config>>

\* Mutant: clear_database calling clear_executions_table first.
ClearDatabaseOrderExecutionsFirst == <<"executions", "items", "logs">>

\* The three calls of clear_database, in the order of the code.
ClearDatabaseOrder == <<"items", "logs", "executions">>

\* One call of clear_database to a table clear, with confirm=True.
ClearTable(t) ==
    CASE t = "items" -> clear_items_table(TRUE) /\ UNCHANGED logstore
      [] t = "logs" -> clear_logs_table(TRUE)
      [] t = "executions" -> clear_executions_table(TRUE) /\ UNCHANGED logstore

\* Database.clear_database seen one statement at a time (each table clear
\* commits its DELETE).  Entry: the confirm check.  worker.item is the index
\* in ClearDatabaseOrder of the next call.
ClearDatabaseBegin(confirm) ==
    /\ worker.pc = "idle"
    /\ IF ~confirm
       THEN /\ ret' = Raised
            /\ UNCHANGED worker
       ELSE /\ worker' = [worker EXCEPT !.pc = "clear_database", !.item = 1]
            /\ UNCHANGED ret
    /\ UNCHANGED <<store, logstore, current, config>>

\* The next table clear of a running clear_database; after the last one the
\* method returns True.
ClearDatabaseStep ==
    /\ worker.pc = "clear_database"
    /\ ClearTable(ClearDatabaseOrder[worker.item])
    /\ worker' = IF worker.item = Len(ClearDatabaseOrder)
                 THEN NoWorker
                 ELSE [worker EXCEPT !.item = worker.item + 1]


\* ------------------------------------------------------------ log methods
\* Levels add_log accepts (and the CHECK of the logs table).
LogLevels == {"debug", "info", "warning", "error", "critical", "success"}

\* Levels a caller passes to add_log; "trace" is not a level.
LogLevelInputs == {"info", "error", "trace"}

\* The log_level filter of clear_logs: None or a level.
LogFilterInputs == {"None", "info", "error"}

\* Row inserted by add_log; message, step_name and timestamp carry no
\* behaviour and are left out.
NewLog(e, level) == [execution_id |-> e, log_level |-> level]

\* Mutant: add_log without its level check; the row is inserted as given.
AddLogUnchecked(e, level) ==
    /\ logs' = logs @@ (nextLogId :> NewLog(e, level))
    /\ nextLogId' = nextLogId + 1
    /\ ret' = RetId(nextLogId)
    /\ UNCHANGED <<store, current, config>>

\* Database.add_log: the level check, then one INSERT; the execution id is
\* not looked up and the embedded backend does not enforce the foreign key.
add_log(e, level) ==
    IF level \notin LogLevels
    THEN /\ ret' = Raised
         /\ UNCHANGED <<store, logstore, current, config>>
    ELSE /\ logs' = logs @@ (nextLogId :> NewLog(e, level))
         /\ nextLogId' = nextLogId + 1
         /\ ret' = RetId(nextLogId)
         /\ UNCHANGED <<store, current, config>>

\* Rows the DELETE of clear_logs matches: WHERE 1=1, AND execution_id = ? when
\* an execution id is given, AND log_level = ? when a level is given.
LogTargets(e, level) ==
    {l \in DOMAIN logs : /\ Truthy(e) => logs[l].execution_id = e
                         /\ level # "None" => logs[l].log_level = level}

\* Database.clear_logs, called without older_than_days (the rows carry no
\* time).
clear_logs(e, level, confirm) ==
    IF ~confirm
    THEN /\ ret' = Raised
         /\ UNCHANGED <<store, logstore, current, config>>
    ELSE /\ logs' = Without(logs, LogTargets(e, level))
         /\ ret' = RetCount(Cardinality(LogTargets(e, level)))
         /\ UNCHANGED <<store, nextLogId, current, config>>

\* Database.__init__ on an existing store (a new process opens the
\* database): the policy flags are stored, the marker starts as None, and with
\* auto_detect_interruptions the handlers are registered and
\* detect_and_mark_interrupted_executions is called; its result is dropped.
__init__(allow_reprocess_interrupted_items, allow_reprocess_interrupted_executions, auto_detect_interruptions) ==
    /\ allow_reprocess_items' = allow_reprocess_interrupted_items
    /\ allow_reprocess_executions' = allow_reprocess_interrupted_executions
    /\ auto_detect' = auto_detect_interruptions
    /\ current' = None
    /\ executions' = IF auto_detect_interruptions
                     THEN [e \in DOMAIN executions |->
                             IF e \in SweepTargets
                             THEN [executions[e] EXCEPT
                                      !.status = "interrupted",
                                      !.finished_properly = 0]
                             ELSE executions[e]]
                     ELSE executions
    /\ ret' = RetNone
    /\ UNCHANGED <<items, nextExecId, nextItemId, db_type>>

\* Database.__init__ of a second engine on the store of this one, which stays
\* alive: the second engine's own marker and flags are another object's, so
\* of this engine only the shared tables are touched, by the construction
\* sweep when auto_detect_interruptions is given.
OpenSecondEngine(auto_detect_interruptions) ==
    /\ executions' = IF auto_detect_interruptions
                     THEN [e \in DOMAIN executions |->
                             IF e \in SweepTargets
                             THEN [executions[e] EXCEPT
                                      !.status = "interrupted",
                                      !.finished_properly = 0]
                             ELSE executions[e]]
                     ELSE executions
    /\ ret' = RetNone
    /\ UNCHANGED <<items, nextExecId, nextItemId, current, config>>

\* ------------------------------------------------------- failing calls
\* Backends the engine is constructed on (DatabaseType); the models of the
\* failing calls below are the only ones that depend on it.
TxnBackends == {"sqlite", "postgresql"}

\* A table after self._adapter.rollback(): on the embedded backend every
\* statement was committed as it ran and rollback does nothing, so the table
\* is as the statements left it; on a backend with transactions it is as the
\* last commit left it.
RolledBack(committed, applied) ==
    IF db_type = "sqlite" THEN applied ELSE committed

\* add_item whose INSERT succeeds and whose total_items UPDATE raises: the
\* except clause calls rollback and re-raises.  The id of the INSERT is used
\* up on either backend.
AddItemFailingAtUpdate(e, prio) ==
    /\ items' = RolledBack(items,
           items @@ (nextItemId :> NewItem(e, prio, MaxQueuePosition(e) + 1)))
    /\ nextItemId' = nextItemId + 1
    /\ ret' = Raised
    /\ UNCHANGED <<executions, nextExecId, current, config>>

\* reprocess_interrupted_execution whose parent UPDATE raises.  The new
\* execution was inserted and committed by start_execution, which also set
\* the marker; the rollback of the except clause undoes nothing that was
\* committed.
ReprocessFailingAfterStart(e) ==
    /\ can_reprocess_execution(e)
    /\ executions' = executions @@ (nextExecId :> NewExecution)
    /\ nextExecId' = nextExecId + 1
    /\ current' = nextExecId
    /\ ret' = Raised
    /\ UNCHANGED <<items, nextItemId, config>>

\* clear_database(confirm=True) whose clear_logs_table raises: the DELETE of
\* clear_items_table was committed by that call.
ClearDatabaseFailingAtLogs ==
    /\ items' = <<>>
    /\ ret' = Raised
    /\ UNCHANGED <<executions, nextExecId, nextItemId, logstore, current,
                   config>>

\* ------------------------------------------------------- specifications
\* The AUTOINCREMENT sequences stay within the ids the model provides.
ExecIdLeft == nextExecId <= MaxExecs
ItemIdsLeft(n) == nextItemId + n - 1 <= MaxItems

\* Execution lifecycle: the operations that create executions and change
\* their status, with items added and started so that item rows exist.
Next ==
    \/ UNCHANGED <<worker, logstore>> /\ ExecIdLeft /\ start_execution
    \/ UNCHANGED <<worker, logstore>> /\ \E e \in ExecIds, s \in FinishInputs :
          finish_execution(e, s)
    \/ UNCHANGED <<worker, logstore>> /\ HandleExit
    \/ UNCHANGED <<worker, logstore>> /\ HandleSignal
    \/ UNCHANGED <<worker, logstore>> /\ detect_and_mark_interrupted_executions
    \/ UNCHANGED <<worker, logstore>> /\ ItemIdsLeft(1) /\ \E e \in DOMAIN executions : add_item(e, 0)
    \/ UNCHANGED <<worker, logstore>> /\ \E e \in ExecIds, k, r \in BOOLEAN :
          /\ can_reprocess_execution(e) =>
                ExecIdLeft /\ ItemIdsLeft(Len(CopiedItems(e, k, r)))
          /\ reprocess_interrupted_execution(e, k, r)

Spec == Init /\ [][Next]_vars

\* The work queue: executions are started, items are added to the current
\* execution (the one started last), dequeued from any execution, started,
\* finished (by the worker that started them, or with an unknown id) and
\* swept.
InitQueue ==
    /\ executions = <<>>
    /\ items = <<>>
    /\ nextExecId = 1
    /\ nextItemId = 1
    /\ current = None
    /\ allow_reprocess_items \in BOOLEAN
    /\ allow_reprocess_executions = FALSE
    /\ auto_detect = TRUE
    /\ ret = RetNone
    /\ worker = NoWorker
    /\ logs = <<>>
    /\ nextLogId = 1
    /\ db_type = "sqlite"

NextQueue ==
    \/ UNCHANGED <<worker, logstore>> /\ nextExecId <= QueueExecs /\ start_execution
    \/ UNCHANGED <<worker, logstore>> /\ \E p \in Priorities :
          current # None /\ nextItemId <= QueueItems /\ add_item(current, p)
    \/ UNCHANGED <<worker, logstore>> /\ \E b \in Batches :
          /\ current # None
          /\ nextItemId + Len(b) - 1 <= QueueItems
          /\ add_items(current, b)
    \/ UNCHANGED <<worker, logstore>> /\ \E e \in 1..QueueExecs, inc \in IncludeInputs :
          get_next_item_from_queue(e, inc)
    \/ UNCHANGED <<worker, logstore>> /\ \E i \in 1..QueueItems : start_processing_item(i)
    \/ UNCHANGED <<worker, logstore>> /\ \E i \in 1..QueueItems, s \in ItemStatuses :
          /\ i \in DOMAIN items => items[i].status = "processing"
          /\ finish_item(i, s)
    \/ UNCHANGED <<worker, logstore>> /\ detect_and_mark_interrupted_items

SpecQueue == InitQueue /\ [][NextQueue]_vars

\* One automation run at a time: an execution is started when none is
\* current, receives items and has them finished while it runs, and is then
\* finished as completed or failed.  The four protected clears are called at
\* any moment with every confirmation input.
InitClear ==
    /\ executions = <<>>
    /\ items = <<>>
    /\ nextExecId = 1
    /\ nextItemId = 1
    /\ current = None
    /\ allow_reprocess_items = FALSE
    /\ allow_reprocess_executions = FALSE
    /\ auto_detect = TRUE
    /\ ret = RetNone
    /\ worker = NoWorker
    /\ logs = <<>>
    /\ nextLogId = 1
    /\ db_type = "sqlite"

\* The execution_id argument of the item clears: None or an id.
ClearExecInputs == {None} \cup (1..ClearExecs)

NextClear ==
    \/ UNCHANGED <<worker, logstore>> /\ nextExecId <= ClearExecs /\ current = None
                         /\ start_execution
    \/ UNCHANGED <<worker, logstore>> /\ \E s \in {"completed", "failed"} :
          current # None /\ finish_execution(current, s)
    \/ UNCHANGED <<worker, logstore>> /\ nextItemId <= ClearItems /\ current # None
                         /\ add_item(current, 0)
    \/ UNCHANGED <<worker, logstore>> /\ \E i \in DOMAIN items, s \in {"success", "failed"} :
          /\ items[i].status = "pending"
          /\ items[i].execution_id = current
          /\ finish_item(i, s)
    \/ UNCHANGED <<worker, logstore>> /\ \E e \in ClearExecInputs, c \in BOOLEAN,
                             code \in ConfirmationInputs :
          clear_successful_items(e, c, code)
    \/ UNCHANGED <<worker, logstore>> /\ \E e \in ClearExecInputs, c \in BOOLEAN,
                             code \in ConfirmationInputs :
          clear_failed_items(e, c, code)
    \/ UNCHANGED <<worker, logstore>> /\ \E c \in BOOLEAN, code \in ConfirmationInputs :
          clear_successful_executions(c, code)
    \/ UNCHANGED <<worker, logstore>> /\ \E c \in BOOLEAN, code \in ConfirmationInputs :
          clear_failed_executions(c, code)

SpecClear == InitClear /\ [][NextClear]_vars

\* One worker on one execution: the execution is started and loaded with
\* items (single and batch inserts), then the worker loops: dequeue, start the
\* returned item, finish it, until the dequeue returns None.
InitWorker ==
    /\ executions = <<>>
    /\ items = <<>>
    /\ nextExecId = 1
    /\ nextItemId = 1
    /\ current = None
    /\ allow_reprocess_items \in BOOLEAN
    /\ allow_reprocess_executions = FALSE
    /\ auto_detect = TRUE
    /\ ret = RetNone
    /\ worker = NoWorker
    /\ logs = <<>>
    /\ nextLogId = 1
    /\ db_type = "sqlite"

\* The worker enters its loop on the current execution.
WorkerBegin ==
    /\ worker.pc = "idle"
    /\ current # None
    /\ worker' = [worker EXCEPT !.pc = "dequeue"]
    /\ UNCHANGED <<store, current, config, ret>>

\* item = get_next_item_from_queue(execution_id); the loop ends on None.
WorkerDequeue ==
    /\ worker.pc = "dequeue"
    /\ get_next_item_from_queue(current, "None")
    /\ worker' = IF ret' = RetNone
                 THEN [worker EXCEPT !.pc = "done"]
                 ELSE [worker EXCEPT !.pc = "start", !.item = ret'.val[1]]

\* start_processing_item(item)
WorkerStart ==
    /\ worker.pc = "start"
    /\ start_processing_item(worker.item)
    /\ worker' = [worker EXCEPT !.pc = "finish"]

\* finish_item(item, status): the item has been served.
WorkerFinish ==
    /\ worker.pc = "finish"
    /\ \E s \in ItemFinishStatuses : finish_item(worker.item, s)
    /\ worker' = [worker EXCEPT !.pc = "dequeue", !.item = None,
                                !.served = Append(@, worker.item)]

NextWorker ==
    \/ UNCHANGED <<worker, logstore>> /\ worker.pc = "idle" /\ current = None
                         /\ start_execution
    \/ UNCHANGED <<worker, logstore>> /\ worker.pc = "idle" /\ current # None
                         /\ nextItemId <= WorkerItems
                         /\ \E p \in Priorities : add_item(current, p)
    \/ UNCHANGED <<worker, logstore>> /\ worker.pc = "idle" /\ current # None
                         /\ \E b \in Batches :
                               /\ nextItemId + Len(b) - 1 <= WorkerItems
                               /\ add_items(current, b)
    \/ UNCHANGED logstore /\ WorkerBegin
    \/ UNCHANGED logstore /\ WorkerDequeue
    \/ UNCHANGED logstore /\ WorkerStart
    \/ UNCHANGED logstore /\ WorkerFinish

SpecWorker == InitWorker /\ [][NextWorker]_vars

\* The crash guard: executions are started, finished and swept by the main
\* thread; the exit hook runs between calls, a signal handler also inside
\* finish_execution, after its UPDATE and before the marker is cleared.
InitGuard ==
    /\ executions = <<>>
    /\ items = <<>>
    /\ nextExecId = 1
    /\ nextItemId = 1
    /\ current = None
    /\ allow_reprocess_items = FALSE
    /\ allow_reprocess_executions = FALSE
    /\ auto_detect = TRUE
    /\ ret = RetNone
    /\ worker = NoWorker
    /\ logs = <<>>
    /\ nextLogId = 1
    /\ db_type = "sqlite"

\* The main thread enters finish_execution and runs it up to the commit.
GuardFinishUpdate ==
    /\ worker.pc = "idle"
    /\ \E e \in 1..GuardExecs, s \in FinishInputs :
          /\ FinishExecutionUpdate(e, s)
          /\ worker' = IF ret' = Raised THEN worker
                       ELSE [worker EXCEPT !.pc = "clear_marker", !.item = e]

\* The main thread completes finish_execution.
GuardFinishReturn ==
    /\ worker.pc = "clear_marker"
    /\ FinishExecutionClearMarker(worker.item)
    /\ worker' = NoWorker

NextGuard ==
    \/ UNCHANGED <<worker, logstore>> /\ worker.pc = "idle" /\ nextExecId <= GuardExecs
                         /\ start_execution
    \/ UNCHANGED logstore /\ GuardFinishUpdate
    \/ UNCHANGED logstore /\ GuardFinishReturn
    \/ UNCHANGED <<worker, logstore>> /\ worker.pc = "idle" /\ HandleExit
    \/ UNCHANGED <<worker, logstore>> /\ HandleSignal
    \/ UNCHANGED <<worker, logstore>> /\ worker.pc = "idle"
                         /\ detect_and_mark_interrupted_executions

SpecGuard == InitGuard /\ [][NextGuard]_vars

\* Table wipes: sequential runs load the tables, and any of the four wipes
\* may be called at any time with either value of the flag.  The exit hook and
\* the signal handler fire between calls, with the store answering or
\* failing; after a wipe the marker names a row that is gone.
InitWipe ==
    /\ executions = <<>>
    /\ items = <<>>
    /\ nextExecId = 1
    /\ nextItemId = 1
    /\ current = None
    /\ allow_reprocess_items = FALSE
    /\ allow_reprocess_executions = FALSE
    /\ auto_detect = TRUE
    /\ ret = RetNone
    /\ worker = NoWorker
    /\ logs = <<>>
    /\ nextLogId = 1
    /\ db_type = "sqlite"

NextWipe ==
    \/ UNCHANGED <<worker, logstore>> /\ nextExecId <= WipeExecs /\ current = None
                         /\ start_execution
    \/ UNCHANGED <<worker, logstore>> /\ current \in DOMAIN executions
                         /\ finish_execution(current, "completed")
    \/ UNCHANGED <<worker, logstore>> /\ nextItemId <= WipeItems /\ current # None
                         /\ add_item(current, 0)
    \/ UNCHANGED <<worker, logstore>> /\ \E c \in BOOLEAN : clear_executions_table(c)
    \/ UNCHANGED <<worker, logstore>> /\ \E c \in BOOLEAN : clear_items_table(c)
    \/ UNCHANGED worker /\ \E c \in BOOLEAN : clear_logs_table(c)
    \/ UNCHANGED worker /\ \E c \in BOOLEAN : clear_database(c)
    \/ UNCHANGED <<worker, logstore>> /\ HandleExit
    \/ UNCHANGED <<worker, logstore>> /\ HandleSignal
    \/ UNCHANGED <<worker, logstore>> /\ HandleExitFailing
    \/ UNCHANGED <<worker, logstore>> /\ HandleSignalFailing

SpecWipe == InitWipe /\ [][NextWipe]_vars

\* Re-opening: a process starts executions, queues items and starts them,
\* at any point a new process constructs the engine on the same store, and
\* either sweep may be called by hand.
InitOpen ==
    /\ executions = <<>>
    /\ items = <<>>
    /\ nextExecId = 1
    /\ nextItemId = 1
    /\ current = None
    /\ allow_reprocess_items \in BOOLEAN
    /\ allow_reprocess_executions \in BOOLEAN
    /\ auto_detect \in BOOLEAN
    /\ ret = RetNone
    /\ worker = NoWorker
    /\ logs = <<>>
    /\ nextLogId = 1
    /\ db_type = "sqlite"

NextOpen ==
    \/ UNCHANGED <<worker, logstore>> /\ nextExecId <= OpenExecs /\ start_execution
    \/ UNCHANGED <<worker, logstore>> /\ nextItemId <= OpenItems /\ current # None
                         /\ add_item(current, 0)
    \/ UNCHANGED <<worker, logstore>> /\ \E i \in DOMAIN items :
          items[i].status = "pending" /\ start_processing_item(i)
    \/ UNCHANGED <<worker, logstore>> /\ \E ai, ae, ad \in BOOLEAN : __init__(ai, ae, ad)
    \/ UNCHANGED <<worker, logstore>> /\ detect_and_mark_interrupted_executions
    \/ UNCHANGED <<worker, logstore>> /\ detect_and_mark_interrupted_items

SpecOpen == InitOpen /\ [][NextOpen]_vars

\* Finishing: executions and items are created and started, and the two
\* finish calls are made with every id of the range, known or not;
\* finish_item is called on unknown items and on items being processed, with
\* every item status as its target.
InitFinish ==
    /\ executions = <<>>
    /\ items = <<>>
    /\ nextExecId = 1
    /\ nextItemId = 1
    /\ current = None
    /\ allow_reprocess_items = FALSE
    /\ allow_reprocess_executions = FALSE
    /\ auto_detect = TRUE
    /\ ret = RetNone
    /\ worker = NoWorker
    /\ logs = <<>>
    /\ nextLogId = 1
    /\ db_type = "sqlite"

NextFinish ==
    \/ UNCHANGED <<worker, logstore>> /\ nextExecId <= FinishExecs /\ start_execution
    \/ UNCHANGED <<worker, logstore>> /\ nextItemId <= FinishItems /\ current # None
                         /\ add_item(current, 0)
    \/ UNCHANGED <<worker, logstore>> /\ \E i \in DOMAIN items :
          items[i].status = "pending" /\ start_processing_item(i)
    \/ UNCHANGED <<worker, logstore>> /\ \E i \in 1..FinishItems, s \in ItemStatuses :
          /\ i \in DOMAIN items => items[i].status = "processing"
          /\ finish_item(i, s)
    \/ UNCHANGED <<worker, logstore>> /\ \E e \in 1..FinishExecs :
          finish_execution(e, "completed")

SpecFinish == InitFinish /\ [][NextFinish]_vars

\* Ownership: sequential runs receive items and logs, end finished or swept,
\* may be reprocessed, and the four operations that delete execution rows are
\* called with their confirmation given.
InitOwner ==
    /\ executions = <<>>
    /\ items = <<>>
    /\ nextExecId = 1
    /\ nextItemId = 1
    /\ current = None
    /\ allow_reprocess_items = FALSE
    /\ allow_reprocess_executions = TRUE
    /\ auto_detect = TRUE
    /\ ret = RetNone
    /\ worker = NoWorker
    /\ logs = <<>>
    /\ nextLogId = 1
    /\ db_type = "sqlite"

NextOwner ==
    \/ UNCHANGED <<worker, logstore>> /\ nextExecId <= OwnerExecs
          /\ current = None /\ start_execution
    \/ UNCHANGED <<worker, logstore>> /\ nextItemId <= OwnerItems
          /\ current \in DOMAIN executions /\ add_item(current, 0)
    \/ UNCHANGED worker /\ nextLogId <= OwnerLogs
          /\ current \in DOMAIN executions /\ add_log(current, "info")
    \/ UNCHANGED <<worker, logstore>> /\ \E s \in {"completed", "failed"} :
          current \in DOMAIN executions /\ finish_execution(current, s)
    \/ UNCHANGED <<worker, logstore>> /\ detect_and_mark_interrupted_executions
    \/ UNCHANGED <<worker, logstore>> /\ nextExecId <= OwnerExecs
          /\ \E e \in DOMAIN executions :
                reprocess_interrupted_execution(e, FALSE, FALSE)
    \/ UNCHANGED <<worker, logstore>>
          /\ \E c \in BOOLEAN : clear_interrupted_executions(c)
    \/ UNCHANGED <<worker, logstore>>
          /\ clear_successful_executions(TRUE, CODE_DELETE_SUCCESS_EXECUTIONS)
    \/ UNCHANGED <<worker, logstore>>
          /\ clear_failed_executions(TRUE, CODE_DELETE_FAILED_EXECUTIONS)
    \/ UNCHANGED <<worker, logstore>> /\ clear_executions_table(TRUE)

SpecOwner == InitOwner /\ [][NextOwner]_vars

\* Logging: executions are started, finished and wiped while logs are written
\* for known and unknown executions with valid and invalid levels, and the
\* three operations that delete log rows are called with and without their
\* confirmation.
InitLog ==
    /\ executions = <<>>
    /\ items = <<>>
    /\ nextExecId = 1
    /\ nextItemId = 1
    /\ current = None
    /\ allow_reprocess_items = FALSE
    /\ allow_reprocess_executions = FALSE
    /\ auto_detect = TRUE
    /\ ret = RetNone
    /\ worker = NoWorker
    /\ logs = <<>>
    /\ nextLogId = 1
    /\ db_type = "sqlite"

\* The execution_id argument of add_log and clear_logs.
LogExecInputs == {None} \cup (1..LogExecs)

NextLog ==
    \/ UNCHANGED <<worker, logstore>> /\ nextExecId <= LogExecs /\ start_execution
    \/ UNCHANGED <<worker, logstore>> /\ current \in DOMAIN executions
          /\ finish_execution(current, "completed")
    \/ UNCHANGED worker /\ nextLogId <= LogRows
          /\ \E e \in 1..LogExecs, level \in LogLevelInputs : add_log(e, level)
    \/ UNCHANGED worker
          /\ \E e \in LogExecInputs, level \in LogFilterInputs, c \in BOOLEAN :
                clear_logs(e, level, c)
    \/ UNCHANGED worker /\ \E c \in BOOLEAN : clear_logs_table(c)
    \/ UNCHANGED worker /\ \E c \in BOOLEAN : clear_database(c)
    \/ UNCHANGED <<worker, logstore>> /\ \E c \in BOOLEAN : clear_executions_table(c)

SpecLog == InitLog /\ [][NextLog]_vars

\* The safe clears on an existing store.  No method of the engine writes the
\* allow_reprocess column or the status queued, so the rows that have them
\* are in the database file when the engine is constructed on it: interrupted
\* rows with the flag cleared or set, and rows of other statuses.
SafeExecRows ==
    {[NewExecution EXCEPT !.status = "interrupted", !.allow_reprocess = 0],
     [NewExecution EXCEPT !.status = "interrupted", !.allow_reprocess = 1],
     [NewExecution EXCEPT !.status = "completed", !.finished_properly = 1,
                          !.allow_reprocess = 0]}

SafeItemRows ==
    {[NewItem(e, 0, 1) EXCEPT !.status = r[1], !.allow_reprocess = r[2]] :
        e \in 1..SafeExecs,
        r \in {<<"pending", 1>>, <<"queued", 0>>, <<"interrupted", 0>>,
               <<"interrupted", 1>>, <<"success", 0>>}}

InitSafe ==
    /\ executions \in [1..SafeExecs -> SafeExecRows]
    /\ items \in [1..SafeItems -> SafeItemRows]
    /\ nextExecId = SafeExecs + 1
    /\ nextItemId = SafeItems + 1
    /\ current = None
    /\ allow_reprocess_items = FALSE
    /\ allow_reprocess_executions = FALSE
    /\ auto_detect = FALSE
    /\ ret = RetNone
    /\ worker = NoWorker
    /\ logs = <<>>
    /\ nextLogId = 1
    /\ db_type = "sqlite"

\* The execution_id argument of the safe item clears: None or an id.
SafeExecInputs == {None} \cup (1..SafeExecs)

NextSafe ==
    \/ UNCHANGED <<worker, logstore>>
          /\ \E e \in SafeExecInputs : clear_pending_items(e)
    \/ UNCHANGED <<worker, logstore>>
          /\ \E e \in SafeExecInputs, c \in BOOLEAN : clear_interrupted_items(e, c)
    \/ UNCHANGED <<worker, logstore>>
          /\ \E c \in BOOLEAN : clear_interrupted_executions(c)

SpecSafe == InitSafe /\ [][NextSafe]_vars

\* Item reprocessing on an existing store.  The store holds one running
\* execution and items left by earlier runs: an interrupted item with every
\* processing field written, an interrupted item whose allow_reprocess flag was
\* cleared in the file, a pending item and an item being processed.  Items are
\* started, checkpointed, swept and reprocessed under either policy.
RetryItemRows ==
    {[NewItem(1, 0, 1) EXCEPT !.status = "interrupted", !.started_at = 1,
                              !.finished_at = 1, !.execution_time_seconds = 1,
                              !.error_message = 1, !.last_checkpoint = 1],
     [NewItem(1, 0, 1) EXCEPT !.status = "interrupted", !.started_at = 1,
                              !.allow_reprocess = 0],
     NewItem(1, 0, 1),
     [NewItem(1, 0, 1) EXCEPT !.status = "processing", !.started_at = 1]}

InitRetry ==
    /\ executions = (1 :> NewExecution)
    /\ items \in [1..RetryItems -> RetryItemRows]
    /\ nextExecId = 2
    /\ nextItemId = RetryItems + 1
    /\ current = None
    /\ allow_reprocess_items \in BOOLEAN
    /\ allow_reprocess_executions = FALSE
    /\ auto_detect = FALSE
    /\ ret = RetNone
    /\ worker = NoWorker
    /\ logs = <<>>
    /\ nextLogId = 1
    /\ db_type = "sqlite"

NextRetry ==
    \/ UNCHANGED <<worker, logstore>> /\ \E i \in 1..(RetryItems + 1) :
          /\ i \in DOMAIN items => items[i].retry_count < RetryLimit
          /\ reprocess_interrupted_item(i)
    \/ UNCHANGED <<worker, logstore>> /\ \E i \in DOMAIN items :
          /\ items[i].status \in StartableStatuses
          /\ start_processing_item(i)
    \/ UNCHANGED <<worker, logstore>> /\ \E i \in DOMAIN items :
          items[i].status = "processing" /\ update_checkpoint(i)
    \/ UNCHANGED <<worker, logstore>> /\ detect_and_mark_interrupted_items

SpecRetry == InitRetry /\ [][NextRetry]_vars

\* Lifecycle: one execution receives items, and every item method that writes
\* status is called on every item whatever its status: start_processing_item,
\* finish_item with each accepted status, the item sweep and
\* reprocess_interrupted_item.
InitLife ==
    /\ executions = <<>>
    /\ items = <<>>
    /\ nextExecId = 1
    /\ nextItemId = 1
    /\ current = None
    /\ allow_reprocess_items = TRUE
    /\ allow_reprocess_executions = FALSE
    /\ auto_detect = TRUE
    /\ ret = RetNone
    /\ worker = NoWorker
    /\ logs = <<>>
    /\ nextLogId = 1
    /\ db_type = "sqlite"

NextLife ==
    \/ UNCHANGED <<worker, logstore>> /\ nextExecId = 1 /\ start_execution
    \/ UNCHANGED <<worker, logstore>> /\ nextItemId <= LifeItems /\ current # None
                         /\ add_item(current, 0)
    \/ UNCHANGED <<worker, logstore>> /\ \E i \in DOMAIN items :
          start_processing_item(i)
    \/ UNCHANGED <<worker, logstore>> /\ \E i \in DOMAIN items, s \in ItemFinishStatuses :
          finish_item(i, s)
    \/ UNCHANGED <<worker, logstore>> /\ detect_and_mark_interrupted_items
    \/ UNCHANGED <<worker, logstore>> /\ \E i \in DOMAIN items :
          /\ items[i].retry_count < LifeRetries
          /\ reprocess_interrupted_item(i)

SpecLife == InitLife /\ [][NextLife]_vars

\* Wiping: executions receive items and logs, and clear_database runs one
\* table clear at a time; the engine is used by one thread, so no other call
\* runs inside it.
InitErase ==
    /\ executions = <<>>
    /\ items = <<>>
    /\ nextExecId = 1
    /\ nextItemId = 1
    /\ current = None
    /\ allow_reprocess_items = FALSE
    /\ allow_reprocess_executions = FALSE
    /\ auto_detect = TRUE
    /\ ret = RetNone
    /\ worker = NoWorker
    /\ logs = <<>>
    /\ nextLogId = 1
    /\ db_type = "sqlite"

NextErase ==
    \/ UNCHANGED <<worker, logstore>> /\ worker.pc = "idle"
          /\ nextExecId <= EraseExecs /\ start_execution
    \/ UNCHANGED <<worker, logstore>> /\ worker.pc = "idle"
          /\ nextItemId <= EraseItems
          /\ \E e \in DOMAIN executions : add_item(e, 0)
    \/ UNCHANGED worker /\ worker.pc = "idle" /\ nextLogId <= EraseLogs
          /\ \E e \in DOMAIN executions : add_log(e, "info")
    \/ \E c \in BOOLEAN : ClearDatabaseBegin(c)
    \/ ClearDatabaseStep

SpecErase == InitErase /\ [][NextErase]_vars

\* The marker: executions are started, finished by id (the current one,
\* another one, an unknown one), swept and reprocessed, while the other
\* methods run around them: items are added, processed and swept, the exit
\* hook runs, and the executions table and the whole database are cleared.
InitMarker ==
    /\ executions = <<>>
    /\ items = <<>>
    /\ nextExecId = 1
    /\ nextItemId = 1
    /\ current = None
    /\ allow_reprocess_items = FALSE
    /\ allow_reprocess_executions = TRUE
    /\ auto_detect = TRUE
    /\ ret = RetNone
    /\ worker = NoWorker
    /\ logs = <<>>
    /\ nextLogId = 1
    /\ db_type = "sqlite"

NextMarker ==
    \/ UNCHANGED <<worker, logstore>> /\ nextExecId <= MarkerExecs /\ start_execution
    \/ UNCHANGED <<worker, logstore>>
          /\ \E e \in 1..MarkerExecs, s \in {"completed", "running"} :
                finish_execution(e, s)
    \/ UNCHANGED <<worker, logstore>> /\ detect_and_mark_interrupted_executions
    \/ UNCHANGED <<worker, logstore>> /\ \E e \in 1..MarkerExecs :
          /\ can_reprocess_execution(e) => nextExecId <= MarkerExecs
          /\ reprocess_interrupted_execution(e, FALSE, FALSE)
    \/ UNCHANGED <<worker, logstore>> /\ HandleExit
    \/ UNCHANGED <<worker, logstore>> /\ nextItemId <= MarkerItems
          /\ current \in DOMAIN executions /\ add_item(current, 0)
    \/ UNCHANGED <<worker, logstore>> /\ \E i \in DOMAIN items :
          start_processing_item(i)
    \/ UNCHANGED <<worker, logstore>> /\ \E i \in DOMAIN items :
          finish_item(i, "success")
    \/ UNCHANGED <<worker, logstore>> /\ detect_and_mark_interrupted_items
    \/ UNCHANGED <<worker, logstore>> /\ \E c \in BOOLEAN : clear_executions_table(c)
    \/ UNCHANGED worker /\ \E c \in BOOLEAN : clear_database(c)

SpecMarker == InitMarker /\ [][NextMarker]_vars

\* Looking at the queue: one execution receives items of two priorities; the
\* queue is read with every include_interrupted input, for the execution and
\* for an id that names none; items are started, skipped (whatever their
\* status), swept and reprocessed, and pending items are cleared.
InitPeek ==
    /\ executions = <<>>
    /\ items = <<>>
    /\ nextExecId = 1
    /\ nextItemId = 1
    /\ current = None
    /\ allow_reprocess_items \in BOOLEAN
    /\ allow_reprocess_executions = FALSE
    /\ auto_detect = TRUE
    /\ ret = RetNone
    /\ worker = NoWorker
    /\ logs = <<>>
    /\ nextLogId = 1
    /\ db_type = "sqlite"

\* Execution ids handed to the dequeue: the execution, and an id that names
\* none.
PeekExecInputs == {1, 2}

NextPeek ==
    \/ UNCHANGED <<worker, logstore>> /\ nextExecId = 1 /\ start_execution
    \/ UNCHANGED <<worker, logstore>> /\ \E pr \in Priorities :
          current # None /\ nextItemId <= PeekItems /\ add_item(current, pr)
    \/ UNCHANGED <<worker, logstore>>
          /\ \E e \in PeekExecInputs, inc \in IncludeInputs :
                get_next_item_from_queue(e, inc)
    \/ UNCHANGED <<worker, logstore>> /\ \E i \in DOMAIN items :
          start_processing_item(i)
    \/ UNCHANGED <<worker, logstore>> /\ \E i \in DOMAIN items :
          finish_item(i, "skipped")
    \/ UNCHANGED <<worker, logstore>> /\ detect_and_mark_interrupted_items
    \/ UNCHANGED <<worker, logstore>> /\ \E i \in DOMAIN items :
          /\ items[i].retry_count < PeekRetries
          /\ reprocess_interrupted_item(i)
    \/ UNCHANGED <<worker, logstore>> /\ \E e \in {None, 1} : clear_pending_items(e)

SpecPeek == InitPeek /\ [][NextPeek]_vars

\* Two workers on one execution.  The execution is started and loaded with
\* items; then each worker runs the loop dequeue, start the returned item,
\* finish it, and the calls of the two workers interleave.  worker is here a
\* function from the worker to its loop state.
RaceWorkers == {1, 2}

InitRace ==
    /\ executions = <<>>
    /\ items = <<>>
    /\ nextExecId = 1
    /\ nextItemId = 1
    /\ current = None
    /\ allow_reprocess_items = FALSE
    /\ allow_reprocess_executions = FALSE
    /\ auto_detect = TRUE
    /\ ret = RetNone
    /\ worker = [w \in RaceWorkers |-> NoWorker]
    /\ logs = <<>>
    /\ nextLogId = 1
    /\ db_type = "sqlite"

\* No worker has entered its loop yet.
RaceLoading == \A w \in RaceWorkers : worker[w].pc = "idle"

\* Worker w enters its loop on the current execution.
RaceBegin(w) ==
    /\ worker[w].pc = "idle"
    /\ current # None
    /\ worker' = [worker EXCEPT ![w].pc = "dequeue"]
    /\ UNCHANGED <<store, current, config, ret>>

\* item = get_next_item_from_queue(execution_id); the loop ends on None.
RaceDequeue(w) ==
    /\ worker[w].pc = "dequeue"
    /\ get_next_item_from_queue(current, "None")
    /\ worker' = IF ret' = RetNone
                 THEN [worker EXCEPT ![w].pc = "done"]
                 ELSE [worker EXCEPT ![w].pc = "start",
                                     ![w].item = ret'.val[1]]

\* if start_processing_item(item): the worker goes on to process the item
\* when the call returned True, and asks for another item otherwise.
RaceStart(w) ==
    /\ worker[w].pc = "start"
    /\ start_processing_item(worker[w].item)
    /\ worker' = IF ret' = RetTrue
                 THEN [worker EXCEPT ![w].pc = "finish"]
                 ELSE [worker EXCEPT ![w].pc = "dequeue", ![w].item = None]

\* finish_item(item, 'success'): worker w has processed the item.
RaceFinish(w) ==
    /\ worker[w].pc = "finish"
    /\ finish_item(worker[w].item, "success")
    /\ worker' = [worker EXCEPT ![w].pc = "dequeue", ![w].item = None,
                                ![w].served = Append(@, worker[w].item)]

NextRace ==
    \/ UNCHANGED <<worker, logstore>> /\ RaceLoading /\ current = None
                         /\ start_execution
    \/ UNCHANGED <<worker, logstore>> /\ RaceLoading /\ current # None
                         /\ nextItemId <= RaceItems
                         /\ \E p \in Priorities : add_item(current, p)
    \/ UNCHANGED logstore /\ \E w \in RaceWorkers : RaceBegin(w)
    \/ UNCHANGED logstore /\ \E w \in RaceWorkers : RaceDequeue(w)
    \/ UNCHANGED logstore /\ \E w \in RaceWorkers : RaceStart(w)
    \/ UNCHANGED logstore /\ \E w \in RaceWorkers : RaceFinish(w)

SpecRace == InitRace /\ [][NextRace]_vars

\* Two callers inserting into one execution, one statement at a time.  Each
\* statement of add_item and add_items is committed on its own (autocommit),
\* so the statements of two calls can interleave.  worker is here a function
\* from the caller to the state of its call: the method, the start position
\* it read, the number of rows, the first id it inserted, the ids returned.
InsertCallers == {1, 2}

NoCall ==
    [pc |-> "idle", method |-> "None", start_position |-> None, n |-> 0,
     first_id |-> None, ids |-> <<>>]

\* Calls a caller makes: add_item, or add_items with a batch of n rows.
InsertCalls ==
    {<<"add_item", 1>>} \cup {<<"add_items", n>> : n \in 1..InsertBatch}

InitInsert ==
    /\ executions = <<>>
    /\ items = <<>>
    /\ nextExecId = 1
    /\ nextItemId = 1
    /\ current = None
    /\ allow_reprocess_items = FALSE
    /\ allow_reprocess_executions = FALSE
    /\ auto_detect = TRUE
    /\ ret = RetNone
    /\ worker = [c \in InsertCallers |-> NoCall]
    /\ logs = <<>>
    /\ nextLogId = 1
    /\ db_type = "sqlite"

\* Mutant: the rows of a call all inserted at the start position.
CallRowsOnePosition(first, e, start, n) ==
    [k \in first..(first + n - 1) |-> NewItem(e, 0, start)]

\* Rows a call inserts: ids from first on, positions start + idx, where start
\* is the position the call read before.
CallRows(first, e, start, n) ==
    [k \in first..(first + n - 1) |-> NewItem(e, 0, start + (k - first))]

\* Results the id re-query of add_items can give on the items table: SELECT id
\* WHERE execution_id = e AND queue_position >= start ORDER BY queue_position
\* ASC LIMIT n; rows of equal position come in an order the query leaves open.
RecoverIdsChoices(e, start, n) ==
    LET S == {i \in ItemsOf(e) : items[i].queue_position >= start}
        Orders == {f \in [1..Cardinality(S) -> S] :
                      \A k, l \in 1..Cardinality(S) :
                         k < l => /\ f[k] # f[l]
                                  /\ items[f[k]].queue_position
                                        <= items[f[l]].queue_position}
    IN {Limit(f, n) : f \in Orders}

\* First statement of add_item / add_items: SELECT COALESCE(MAX(queue_position),
\* 0) of the execution.
InsertRead(c, call) ==
    /\ worker[c].pc \in {"idle", "done"}
    /\ current # None
    /\ worker' = [worker EXCEPT ![c] =
           [NoCall EXCEPT !.pc = "insert", !.method = call[1], !.n = call[2],
                          !.start_position = MaxQueuePosition(current) + 1]]
    /\ UNCHANGED <<store, current, config, ret>>

\* Second statement: the INSERT (execute_many for a batch).
InsertRows(c) ==
    /\ worker[c].pc = "insert"
    /\ items' = items @@ CallRows(nextItemId, current,
                                  worker[c].start_position, worker[c].n)
    /\ nextItemId' = nextItemId + worker[c].n
    /\ worker' = [worker EXCEPT ![c].pc = "return", ![c].first_id = nextItemId]
    /\ UNCHANGED <<executions, nextExecId, current, config, ret>>

\* The rest of the call: add_item takes the id of its INSERT, add_items
\* re-queries the ids by position; both add to total_items and return.
InsertReturn(c) ==
    /\ worker[c].pc = "return"
    /\ executions' = AddToTotal(current, worker[c].n)
    /\ IF worker[c].method = "add_item"
       THEN ret' = RetId(worker[c].first_id)
       ELSE \E s \in RecoverIdsChoices(current, worker[c].start_position,
                                       worker[c].n) : ret' = RetIds(s)
    /\ worker' = [worker EXCEPT ![c].pc = "done", ![c].ids = ret'.val]
    /\ UNCHANGED <<items, nextExecId, nextItemId, current, config>>

\* Rows caller c has still to insert in the call it is in.
PendingRows(c) == IF worker[c].pc = "insert" THEN worker[c].n ELSE 0

NextInsert ==
    \/ UNCHANGED <<worker, logstore>> /\ current = None /\ start_execution
    \/ UNCHANGED logstore /\ \E c \in InsertCallers, call \in InsertCalls :
          /\ nextItemId + call[2] - 1 + PendingRows(1) + PendingRows(2)
                <= InsertItems
          /\ InsertRead(c, call)
    \/ UNCHANGED logstore /\ \E c \in InsertCallers : InsertRows(c)
    \/ UNCHANGED logstore /\ \E c \in InsertCallers : InsertReturn(c)

SpecInsert == InitInsert /\ [][NextInsert]_vars

\* Two engines on one store: this engine starts executions and finishes them
\* with each accepted status while, at any moment, a second engine is
\* constructed on the same store, with or without auto-detect.
InitTwin ==
    /\ executions = <<>>
    /\ items = <<>>
    /\ nextExecId = 1
    /\ nextItemId = 1
    /\ current = None
    /\ allow_reprocess_items = FALSE
    /\ allow_reprocess_executions = FALSE
    /\ auto_detect = TRUE
    /\ ret = RetNone
    /\ worker = NoWorker
    /\ logs = <<>>
    /\ nextLogId = 1
    /\ db_type = "sqlite"

NextTwin ==
    \/ UNCHANGED <<worker, logstore>> /\ nextExecId <= TwinExecs /\ start_execution
    \/ UNCHANGED <<worker, logstore>>
          /\ \E e \in DOMAIN executions, s \in FinishStatuses :
                finish_execution(e, s)
    \/ UNCHANGED <<worker, logstore>> /\ \E a \in BOOLEAN : OpenSecondEngine(a)

SpecTwin == InitTwin /\ [][NextTwin]_vars

\* Teardown: executions are started (also before the previous one is
\* finished) and finished, items are added and started, and the exit hook,
\* the signal handler and the two sweeps run at any moment, any number of
\* times.
InitTeardown ==
    /\ executions = <<>>
    /\ items = <<>>
    /\ nextExecId = 1
    /\ nextItemId = 1
    /\ current = None
    /\ allow_reprocess_items = FALSE
    /\ allow_reprocess_executions = FALSE
    /\ auto_detect = TRUE
    /\ ret = RetNone
    /\ worker = NoWorker
    /\ logs = <<>>
    /\ nextLogId = 1
    /\ db_type = "sqlite"

NextTeardown ==
    \/ UNCHANGED <<worker, logstore>> /\ nextExecId <= TeardownExecs /\ start_execution
    \/ UNCHANGED <<worker, logstore>> /\ current \in DOMAIN executions
          /\ finish_execution(current, "completed")
    \/ UNCHANGED <<worker, logstore>> /\ nextItemId <= TeardownItems
          /\ current \in DOMAIN executions /\ add_item(current, 0)
    \/ UNCHANGED <<worker, logstore>> /\ \E i \in DOMAIN items :
          items[i].status = "pending" /\ start_processing_item(i)
    \/ UNCHANGED <<worker, logstore>> /\ HandleExit
    \/ UNCHANGED <<worker, logstore>> /\ HandleSignal
    \/ UNCHANGED <<worker, logstore>> /\ detect_and_mark_interrupted_executions
    \/ UNCHANGED <<worker, logstore>> /\ detect_and_mark_interrupted_items

SpecTeardown == InitTeardown /\ [][NextTeardown]_vars

\* Failing calls on either backend: sequential runs receive items and logs
\* and are swept, and add_item, reprocess_interrupted_execution and
\* clear_database fail part-way (a statement raises), on the embedded backend
\* and on one with transactions.
InitTxn ==
    /\ executions = <<>>
    /\ items = <<>>
    /\ nextExecId = 1
    /\ nextItemId = 1
    /\ current = None
    /\ allow_reprocess_items = FALSE
    /\ allow_reprocess_executions = TRUE
    /\ auto_detect = TRUE
    /\ ret = RetNone
    /\ worker = NoWorker
    /\ logs = <<>>
    /\ nextLogId = 1
    /\ db_type \in TxnBackends

NextTxn ==
    \/ UNCHANGED <<worker, logstore>> /\ nextExecId <= TxnExecs /\ start_execution
    \/ UNCHANGED <<worker, logstore>> /\ nextItemId <= TxnItems
          /\ current \in DOMAIN executions /\ add_item(current, 0)
    \/ UNCHANGED worker /\ nextLogId <= TxnLogs
          /\ current \in DOMAIN executions /\ add_log(current, "info")
    \/ UNCHANGED <<worker, logstore>> /\ detect_and_mark_interrupted_executions
    \/ UNCHANGED <<worker, logstore>> /\ nextItemId <= TxnItems
          /\ current \in DOMAIN executions
          /\ AddItemFailingAtUpdate(current, 0)
    \/ UNCHANGED <<worker, logstore>> /\ nextExecId <= TxnExecs
          /\ \E e \in DOMAIN executions : ReprocessFailingAfterStart(e)
    \/ UNCHANGED worker /\ ClearDatabaseFailingAtLogs

SpecTxn == InitTxn /\ [][NextTxn]_vars

\* Draining one execution: items are loaded and some are finished without
\* having been served (they are no longer eligible) before the worker enters
\* its loop; inside the loop only the worker's three calls run, in program
\* order.  The loop is sequential code, so a call that can run does run: weak
\* fairness on the worker's steps.
DrainStep ==
    UNCHANGED logstore /\ (WorkerDequeue \/ WorkerStart \/ WorkerFinish)

NextDrain ==
    \/ UNCHANGED <<worker, logstore>> /\ worker.pc = "idle" /\ current = None
                         /\ start_execution
    \/ UNCHANGED <<worker, logstore>> /\ worker.pc = "idle" /\ current # None
                         /\ nextItemId <= DrainItems
                         /\ \E p \in Priorities : add_item(current, p)
    \/ UNCHANGED <<worker, logstore>> /\ worker.pc = "idle"
                         /\ \E i \in DOMAIN items :
                               /\ items[i].status = "pending"
                               /\ finish_item(i, "skipped")
    \/ UNCHANGED logstore /\ WorkerBegin
    \/ DrainStep

SpecDrain == InitWorker /\ [][NextDrain]_vars /\ WF_vars(DrainStep)

\* ------------------------------------------------------------------ claims
\* Statuses the documentation of finish_execution allows.
DocumentedFinishStatuses == {"completed", "failed", "cancelled"}

\* C1: finish_execution with a status outside {completed, failed, cancelled}
\* ('running', 'interrupted' and a string outside the enum included) raises,
\* and the executions table, the items table and the current-execution marker
\* are left as they were, for every execution id.
C1_InvalidStatusRejected ==
    [][\A e \in ExecIds, s \in FinishInputs \ DocumentedFinishStatuses :
          finish_execution(e, s) =>
              /\ ret' = Raised
              /\ executions' = executions
              /\ items' = items
              /\ current' = current]_vars

\* C1 witness: a call was rejected although every execution id names a row, one
\* of them the current execution, and an item row exists.
C1_Witness ==
    /\ ret = Raised
    /\ DOMAIN executions = ExecIds
    /\ current # None
    /\ items # <<>>

\* C2: an execution's status leaves 'running' exactly once: completed, failed
\* and cancelled are entered only from running, and a row that is completed,
\* failed, cancelled or interrupted keeps its status under every operation.
C2_StatusMonotonic ==
    [][\A e \in DOMAIN executions \cap DOMAIN executions' :
          /\ executions[e].status # "running" =>
                executions'[e].status = executions[e].status
          /\ (/\ executions'[e].status \in DocumentedFinishStatuses
              /\ executions'[e].status # executions[e].status) =>
                executions[e].status = "running"]_vars

\* C6: after detect_and_mark_interrupted_executions every execution that was
\* running with finished_properly = 0 is interrupted, and every execution that
\* was completed, failed, cancelled or interrupted is unchanged in all fields.
C6_SweepMarksRunningOnly ==
    [][detect_and_mark_interrupted_executions =>
          /\ DOMAIN executions' = DOMAIN executions
          /\ \A e \in DOMAIN executions :
                /\ (/\ executions[e].status = "running"
                    /\ executions[e].finished_properly = 0) =>
                      executions'[e].status = "interrupted"
                /\ executions[e].status # "running" =>
                      executions'[e] = executions[e]]_vars

\* C6 witness: the sweep returned a marked execution while another execution
\* had finished normally.
C6_Witness ==
    /\ ret.kind = "ids"
    /\ Len(ret.val) > 0
    /\ \E e \in DOMAIN executions :
          executions[e].status \in DocumentedFinishStatuses

C3_NextItemIsQueueHead ==
    [][(ret'.kind \in {"none", "id"} /\ items' = items) =>
       \A e \in 1..QueueExecs, inc \in IncludeInputs :
          get_next_item_from_queue(e, inc) =>
              LET included == IF inc = "None" THEN allow_reprocess_items
                              ELSE inc = "True"
                  eligible == {i \in DOMAIN items :
                      /\ items[i].execution_id = e
                      /\ \/ items[i].status \in {"pending", "queued"}
                         \/ included /\ items[i].status = "interrupted"}
              IN /\ (ret' = RetNone) <=> (eligible = {})
                 /\ eligible # {} =>
                       /\ ret'.kind = "id"
                       /\ ret'.val[1] \in eligible
                       /\ \A j \in eligible :
                             /\ items[j].priority <= items[ret'.val[1]].priority
                             /\ items[j].priority = items[ret'.val[1]].priority =>
                                   items[ret'.val[1]].queue_position
                                       <= items[j].queue_position
                 /\ executions' = executions]_vars

\* C3 witness: with one execution holding a pending item of priority 0 and,
\* inserted after it, an interrupted item of priority 5, the dequeue returned
\* the later item.
C3_Witness ==
    /\ DOMAIN executions = {1}
    /\ DOMAIN items = {1, 2}
    /\ items[1].status = "pending" /\ items[1].priority = 0
    /\ items[2].status = "interrupted" /\ items[2].priority = 5
    /\ ret = RetId(2)

\* C4: within one execution the queue_position values are pairwise distinct
\* and increase in insertion order (item ids are handed out in insertion
\* order), whatever mix of add_item and add_items produced the items.
C4_QueuePositionIncreasing ==
    \A i, j \in DOMAIN items :
        (items[i].execution_id = items[j].execution_id /\ i < j) =>
            items[i].queue_position < items[j].queue_position

\* C4 witness: add_items has just appended a one-row batch to an execution
\* that already held an item inserted by add_item.
C4_Witness ==
    /\ DOMAIN items = {1, 2}
    /\ items[1].execution_id = items[2].execution_id
    /\ items[1].status = "pending" /\ items[2].status = "pending"
    /\ ret = RetIds(<<2>>)

\* C5: start_processing_item(i) leaves the items table as it was when item i
\* is missing or its status is outside {pending, queued, interrupted};
\* otherwise item i becomes processing with started_at set, its other columns
\* and every other item unchanged.  The executions are never changed.
C5_StartOnlyFromStartable ==
    [][\A i \in 1..QueueItems :
          start_processing_item(i) =>
              /\ executions' = executions
              /\ IF /\ i \in DOMAIN items
                    /\ items[i].status \in {"pending", "queued", "interrupted"}
                 THEN /\ DOMAIN items' = DOMAIN items
                      /\ items'[i] = [items[i] EXCEPT !.status = "processing",
                                                      !.started_at = 1]
                      /\ \A j \in DOMAIN items \ {i} : items'[j] = items[j]
                 ELSE items' = items]_vars

\* C5 witness: item 1 is processing with started_at set while item 2 is still
\* pending, and the last call returned True.
C5_Witness ==
    /\ DOMAIN items = {1, 2}
    /\ items[1].status = "processing" /\ items[1].started_at = 1
    /\ items[2].status = "pending" /\ items[2].started_at = None
    /\ ret = RetTrue

\* C9: total_items of every execution equals the number of item rows inserted
\* into it, after every mix of add_item calls (one row each) and add_items
\* calls (k rows each); an add_items call with an empty batch changes neither
\* table.
C9_TotalItemsCountsInserts ==
    /\ [](\A e \in DOMAIN executions :
              executions[e].total_items = Cardinality(ItemsOf(e)))
    /\ [][\A e \in DOMAIN executions :
              add_items(e, <<>>) => executions' = executions /\ items' = items
         ]_vars

\* C9 witness: a batch of two rows was inserted and the execution counts two
\* items.
C9_Witness ==
    /\ ret = RetIds(<<1, 2>>)
    /\ items[1].status = "pending" /\ items[2].status = "pending"
    /\ executions[items[1].execution_id].total_items = 2

\* The rows C7 lets a confirmed item clear delete: status st, and of
\* execution e when one is passed.
C7_TargetedItems(e, st) ==
    {i \in DOMAIN items : /\ items[i].status = st
                          /\ e # None => items[i].execution_id = e}

\* A step that deletes exactly the item rows in D and returns their number.
C7_DeletesItems(D) ==
    /\ DOMAIN items' = DOMAIN items \ D
    /\ \A i \in DOMAIN items' : items'[i] = items[i]
    /\ executions' = executions
    /\ ret' = RetCount(Cardinality(D))

\* A step that deletes exactly the executions with status st and returns
\* their number.
C7_DeletesExecutions(st) ==
    LET D == {e \in DOMAIN executions : executions[e].status = st}
    IN /\ DOMAIN executions' = DOMAIN executions \ D
       /\ \A e \in DOMAIN executions' : executions'[e] = executions[e]
       /\ items' = items
       /\ ret' = RetCount(Cardinality(D))

\* C7: each of clear_successful_items, clear_failed_items,
\* clear_successful_executions and clear_failed_executions raises and deletes
\* nothing unless confirm is True and the confirmation code is the operation's
\* own token (the token of another operation is refused); with both it deletes
\* exactly the rows with the targeted status, only those of the given
\* execution when one is passed, and returns how many rows it deleted.
\* First conjunct: a step that is not "raised, both tables unchanged" is no
\* call with confirm False or a code other than the operation's own.  Second
\* conjunct: a confirmed call, which does not raise, deletes the targeted rows.
C7_ProtectedClears ==
    [][/\ \/ ret' = Raised /\ executions' = executions /\ items' = items
          \/ \A c \in BOOLEAN, code \in ConfirmationInputs :
                /\ ~(c /\ code = "DELETE_SUCCESS") =>
                      \A e \in ClearExecInputs : ~clear_successful_items(e, c, code)
                /\ ~(c /\ code = "DELETE_FAILED") =>
                      \A e \in ClearExecInputs : ~clear_failed_items(e, c, code)
                /\ ~(c /\ code = "DELETE_SUCCESS_EXECUTIONS") =>
                      ~clear_successful_executions(c, code)
                /\ ~(c /\ code = "DELETE_FAILED_EXECUTIONS") =>
                      ~clear_failed_executions(c, code)
       /\ ret' # Raised =>
             /\ \A e \in ClearExecInputs :
                   /\ clear_successful_items(e, TRUE, "DELETE_SUCCESS") =>
                         C7_DeletesItems(C7_TargetedItems(e, "success"))
                   /\ clear_failed_items(e, TRUE, "DELETE_FAILED") =>
                         C7_DeletesItems(C7_TargetedItems(e, "failed"))
             /\ clear_successful_executions(TRUE, "DELETE_SUCCESS_EXECUTIONS") =>
                   C7_DeletesExecutions("completed")
             /\ clear_failed_executions(TRUE, "DELETE_FAILED_EXECUTIONS") =>
                   C7_DeletesExecutions("failed")]_vars

\* C7 witness: execution 1 finished as completed with its one item
\* successful; with a successful item stored for execution 2, a clear has
\* deleted one row and the item of execution 2 is still there.
C7_Witness ==
    /\ ret = RetCount(1)
    /\ DOMAIN executions = {1, 2}
    /\ executions[1].status = "completed"
    /\ executions[1].successful_items = 1
    /\ DOMAIN items = {2}
    /\ items[2].execution_id = 2
    /\ items[2].status = "success"

\* C10: the items one worker has served so far are in order of priority
\* descending and, within equal priority, in insertion order (item ids follow
\* insertion order); when its loop ends every item of the execution has been
\* served, and three items inserted with priorities 0, 5, 0 have been served as
\* second, first, third.
C10_PriorityThenInsertionOrder ==
    /\ \A a, b \in 1..Len(worker.served) : a < b =>
           \/ items[worker.served[a]].priority > items[worker.served[b]].priority
           \/ /\ items[worker.served[a]].priority
                    = items[worker.served[b]].priority
              /\ worker.served[a] < worker.served[b]
    /\ worker.pc = "done" =>
           /\ {worker.served[a] : a \in 1..Len(worker.served)} = DOMAIN items
           /\ Len(worker.served) = Cardinality(DOMAIN items)
           /\ (/\ DOMAIN items = {1, 2, 3}
               /\ items[1].priority = 0
               /\ items[2].priority = 5
               /\ items[3].priority = 0) => worker.served = <<2, 1, 3>>

\* C10 witness: the loop has ended after serving three items inserted with
\* priorities 0, 5, 0.
C10_Witness ==
    /\ worker.pc = "done"
    /\ Len(worker.served) = 3
    /\ DOMAIN items = {1, 2, 3}
    /\ items[1].priority = 0 /\ items[2].priority = 5 /\ items[3].priority = 0

\* What C11 says of a dequeue from execution e, given whether interrupted
\* items count as asked for: when they do, an interrupted item that no other
\* pending, queued or interrupted item of the execution precedes in priority
\* order is the one returned; when they do not, no interrupted item is
\* returned.
C11_Dequeue(e, included) ==
    LET intr == {i \in DOMAIN items : /\ items[i].execution_id = e
                                      /\ items[i].status = "interrupted"}
        open == {i \in DOMAIN items : /\ items[i].execution_id = e
                                      /\ items[i].status \in {"pending", "queued"}}
        Before(i, j) == \/ items[i].priority > items[j].priority
                        \/ /\ items[i].priority = items[j].priority
                           /\ items[i].queue_position < items[j].queue_position
    IN IF included
       THEN \A i \in intr :
               (\A j \in (intr \cup open) \ {i} : Before(i, j)) => ret' = RetId(i)
       ELSE ret'.kind = "id" => ret'.val[1] \notin intr

\* The sweep half of C11: every item that was processing is interrupted after
\* detect_and_mark_interrupted_items.
C11_Sweep ==
    detect_and_mark_interrupted_items =>
        \A i \in DOMAIN items :
            items[i].status = "processing" => items'[i].status = "interrupted"

\* C11 as claimed: an item that was processing is interrupted after the item
\* sweep; a dequeue returns an interrupted item (in priority order) when the
\* reprocess-items policy is enabled or the caller passes
\* include_interrupted=True, and returns none otherwise.
C11_AsClaimed ==
    [][/\ C11_Sweep
       /\ (ret'.kind \in {"none", "id"} /\ items' = items) =>
             \A e \in 1..QueueExecs, inc \in IncludeInputs :
                get_next_item_from_queue(e, inc) =>
                    C11_Dequeue(e, allow_reprocess_items \/ inc = "True")]_vars

\* C11 amended: an item that was processing is interrupted after the item
\* sweep; a dequeue returns an interrupted item (in priority order) when the
\* caller passes include_interrupted=True, or passes nothing while the policy
\* is enabled, and returns none when the caller passes False, or passes
\* nothing while the policy is disabled.
C11_InterruptedItemDequeue ==
    [][/\ C11_Sweep
       /\ (ret'.kind \in {"none", "id"} /\ items' = items) =>
             \A e \in 1..QueueExecs, inc \in IncludeInputs :
                get_next_item_from_queue(e, inc) =>
                    C11_Dequeue(e, \/ inc = "True"
                                   \/ inc = "None" /\ allow_reprocess_items)]_vars

\* C11 witness: with the policy disabled, item 1 was started, swept to
\* interrupted, and then returned by a dequeue.
C11_Witness ==
    /\ ~allow_reprocess_items
    /\ 1 \in DOMAIN items
    /\ items[1].status = "interrupted"
    /\ items[1].started_at = 1
    /\ ret = RetId(1)

\* C12: when the exit hook or a signal handler fires, the execution named by
\* the current-execution marker becomes interrupted if its status was running
\* and is unchanged otherwise (a completed, failed or cancelled row is not
\* overwritten); every other execution row, the items and the marker are
\* unchanged.
C12_HandlerMarksOnlyRunningCurrent ==
    [][(HandleExit \/ HandleSignal) =>
          /\ DOMAIN executions' = DOMAIN executions
          /\ \A e \in DOMAIN executions :
                IF e = current /\ executions[e].status = "running"
                THEN executions'[e].status = "interrupted"
                ELSE executions'[e] = executions[e]
          /\ items' = items
          /\ current' = current]_vars

\* C12 witness: a signal handler has run inside finish_execution, after the
\* execution named by the marker was completed and before the marker was
\* cleared, and the row is still completed.
C12_Witness ==
    /\ worker.pc = "clear_marker"
    /\ current = worker.item
    /\ executions[current].status = "completed"
    /\ ret = RetNone

\* C13: in every state an execution has finished_properly = 1 exactly when
\* its status is completed, failed or cancelled; a step that raises the flag
\* of a row is the UPDATE of finish_execution on that row, and a row changed
\* by the exit hook, a signal handler or the reconciliation sweep has
\* finished_properly = 0 afterwards.
C13_FinishedProperlyOnlyByFinish ==
    /\ [](\A e \in DOMAIN executions :
              (executions[e].finished_properly = 1)
                  <=> (executions[e].status \in {"completed", "failed", "cancelled"}))
    /\ [][\A e \in DOMAIN executions :
              /\ (/\ executions[e].finished_properly = 0
                  /\ executions'[e].finished_properly = 1) =>
                    \E s \in {"completed", "failed", "cancelled"} :
                        FinishExecutionUpdate(e, s)
              /\ (/\ \/ HandleExit
                     \/ HandleSignal
                     \/ detect_and_mark_interrupted_executions
                  /\ executions'[e] # executions[e]) =>
                    executions'[e].finished_properly = 0]_vars

\* C13 witness: the sweep has just returned an interrupted execution, whose
\* flag is 0, while another execution is completed with the flag at 1.
C13_Witness ==
    /\ ret.kind = "ids"
    /\ \E e \in DOMAIN executions :
          /\ executions[e].status = "interrupted"
          /\ executions[e].finished_properly = 0
          /\ e = ret.val[Len(ret.val)]
    /\ \E e \in DOMAIN executions :
          /\ executions[e].status = "completed"
          /\ executions[e].finished_properly = 1

\* C14: a successful reprocess_interrupted_execution(orig) creates exactly one
\* new execution, with status running and parent_execution_id = orig; orig
\* keeps status interrupted and its reprocess_count grows by one; the new
\* execution's reprocess_count is 0.
C14_ReprocessLinksAndCounts ==
    [][ret'.kind = "id" =>
       \A orig \in ExecIds, k, r \in BOOLEAN :
          (can_reprocess_execution(orig)
              /\ reprocess_interrupted_execution(orig, k, r)) =>
              LET new == ret'.val[1]
              IN /\ new \notin DOMAIN executions
                 /\ DOMAIN executions' = DOMAIN executions \cup {new}
                 /\ executions'[new].status = "running"
                 /\ executions'[new].parent_execution_id = orig
                 /\ executions'[orig].status = "interrupted"
                 /\ executions'[orig].reprocess_count
                       = executions[orig].reprocess_count + 1
                 /\ executions'[new].reprocess_count = 0]_vars

\* C15: every table-wide wipe (clear_executions_table, clear_items_table,
\* clear_logs_table, clear_database) needs the flag and the exact token. The
\* wipes take no token argument, so no call carries one: as claimed, every
\* call raises and deletes nothing.
C15_WipeNeedsFlagAndToken ==
    [][\A confirm \in BOOLEAN :
          (\/ clear_executions_table(confirm)
           \/ clear_items_table(confirm)
           \/ clear_logs_table(confirm)
           \/ clear_database(confirm)) =>
              /\ ret' = Raised
              /\ UNCHANGED store]_vars

\* C16: constructing the engine with auto-detect enabled leaves no execution
\* running with finished_properly = 0 and no item processing; with auto-detect
\* disabled the construction changes no row and registers no handler (the
\* handlers run only while auto_detect is set).
C16_ConstructionSweepsBoth ==
    [][\A ai, ae, ad \in BOOLEAN :
          __init__(ai, ae, ad) =>
              IF ad
              THEN /\ \A e \in DOMAIN executions' :
                         ~(/\ executions'[e].status = "running"
                           /\ executions'[e].finished_properly = 0)
                   /\ \A i \in DOMAIN items' : items'[i].status # "processing"
              ELSE /\ UNCHANGED store
                   /\ ~auto_detect']_vars

\* C17: detect_and_mark_interrupted_executions and
\* detect_and_mark_interrupted_items return exactly the ids of the rows the
\* call changed: each changed row once, no row interrupted earlier, and the
\* empty list when the call changes nothing.
C17_SweepReturnsChangedRows ==
    [][ret'.kind = "ids" =>
          LET returned == {ret'.val[k] : k \in DOMAIN ret'.val}
          IN /\ detect_and_mark_interrupted_executions =>
                  /\ returned = {e \in DOMAIN executions :
                                    executions'[e] # executions[e]}
                  /\ Len(ret'.val) = Cardinality(returned)
             /\ detect_and_mark_interrupted_items =>
                  /\ returned = {i \in DOMAIN items : items'[i] # items[i]}
                  /\ Len(ret'.val) = Cardinality(returned)]_vars

\* C18: finish_execution with an unknown execution id raises, finish_item with
\* an unknown item id raises, and finish_item with a target status outside
\* {success, failed, skipped} raises; in each case no row is changed.
C18_FinishRejectsUnknownOrInvalid ==
    [][\/ ret' = Raised /\ UNCHANGED <<store, current>>
       \/ /\ \A e \in 1..FinishExecs :
                e \notin DOMAIN executions => ~finish_execution(e, "completed")
          /\ \A i \in 1..FinishItems, s \in ItemStatuses :
                (i \notin DOMAIN items \/ s \notin {"success", "failed", "skipped"})
                    => ~finish_item(i, s)]_vars

\* C18 witness: every execution of the range exists and no item does, so the
\* call that raised is finish_item with an unknown item id.
C18_Witness ==
    /\ ret = Raised
    /\ DOMAIN executions = 1..FinishExecs
    /\ items = <<>>

\* C19: the exit hook and the signal handler never raise.  When the marking
\* fails (store error or closed connection: the UPDATE raises) or the row
\* named by the marker is gone, the handler returns normally and the marker
\* and every row are unchanged.
C19_HandlersSwallowFailures ==
    [][/\ (HandleExitFailing \/ HandleSignalFailing) =>
              /\ ret' = RetNone
              /\ UNCHANGED <<store, current>>
       /\ (/\ Truthy(current)
           /\ current \notin DOMAIN executions
           /\ (HandleExit \/ HandleSignal)) =>
              /\ ret' = RetNone
              /\ UNCHANGED <<store, current>>]_vars

\* C19 witness: a handler has returned None while the marked execution is
\* still running, which only a handler whose UPDATE failed leaves behind.
C19_Witness ==
    /\ ret = RetNone
    /\ Truthy(current)
    /\ current \in DOMAIN executions
    /\ executions[current].status = "running"

\* C20: add_items with a non-empty batch of n items inserts n rows and nothing
\* else: the k-th input item gets queue position start + k - 1, where start is
\* the largest position already present in that execution (0 when there is
\* none) plus one, every inserted row is pending, and the call returns the n
\* ids of the rows it inserted, in input order.
C20_BatchPositionsAndIds ==
    [][ret'.kind = "ids" =>
          \A b \in Batches :
             (Truthy(current) /\ Len(b) > 0 /\ add_items(current, b)) =>
                LET n == Len(b)
                    P == {items[i].queue_position :
                             i \in {j \in DOMAIN items :
                                       items[j].execution_id = current}}
                            \cup {0}
                    start == (CHOOSE p \in P : \A q \in P : q <= p) + 1
                IN /\ Len(ret'.val) = n
                   /\ \A k \in 1..n :
                         /\ ret'.val[k] \notin DOMAIN items
                         /\ ret'.val[k] \in DOMAIN items'
                         /\ items'[ret'.val[k]].execution_id = current
                         /\ items'[ret'.val[k]].queue_position = start + k - 1
                         /\ items'[ret'.val[k]].priority = b[k]
                         /\ items'[ret'.val[k]].status = "pending"
                   /\ DOMAIN items' \ DOMAIN items = {ret'.val[k] : k \in 1..n}
                   /\ \A i \in DOMAIN items : items'[i] = items[i]]_vars

\* C20 witness: a batch of two has been appended to an execution that already
\* held item 1; the call returned the two new ids, at positions 2 and 3.
C20_Witness ==
    /\ ret = RetIds(<<2, 3>>)
    /\ DOMAIN items = {1, 2, 3}
    /\ items[2].execution_id = items[1].execution_id
    /\ items[3].execution_id = items[1].execution_id
    /\ items[1].queue_position = 1
    /\ items[2].queue_position = 2
    /\ items[3].queue_position = 3
    /\ items[2].status = "pending" /\ items[3].status = "pending"

\* C21: an execution owns its items and logs.  In every reachable state every
\* item and every log refers to an existing execution, and no execution has a
\* deleted execution as its parent.
C21_ItemsAndLogsHaveExecution ==
    /\ \A i \in DOMAIN items : items[i].execution_id \in DOMAIN executions
    /\ \A l \in DOMAIN logs : logs[l].execution_id \in DOMAIN executions
    /\ \A e \in DOMAIN executions :
          Truthy(executions[e].parent_execution_id) =>
              executions[e].parent_execution_id \in DOMAIN executions

\* C22: log rows are append-only.  No step changes a field of a log row that
\* stays in the table; every new row has one of the six levels, and add_log with
\* another level raises and inserts nothing; a row leaves the table only in a
\* step of clear_logs, clear_logs_table or clear_database called with
\* confirm=True, and clear_logs with confirm=False raises and removes nothing.
C22_LogsAppendOnly ==
    [][/\ \A l \in DOMAIN logs \cap DOMAIN logs' : logs'[l] = logs[l]
       /\ \A l \in DOMAIN logs' \ DOMAIN logs :
             logs'[l].log_level \in
                 {"debug", "info", "warning", "error", "critical", "success"}
       /\ \A e \in 1..LogExecs :
             add_log(e, "trace") => ret' = Raised /\ UNCHANGED logstore
       /\ DOMAIN logs \ DOMAIN logs' # {} =>
             \/ \E e \in LogExecInputs, level \in LogFilterInputs :
                   clear_logs(e, level, TRUE)
             \/ clear_logs_table(TRUE)
             \/ clear_database(TRUE)
       /\ \A e \in LogExecInputs, level \in LogFilterInputs :
             clear_logs(e, level, FALSE) =>
                 ret' = Raised /\ UNCHANGED logstore]_vars

\* C22 witness: clear_logs has removed log 1 (it returned the count 1) and
\* log 2, written with level error, is still in the table.
C22_Witness ==
    /\ ret = RetCount(1)
    /\ DOMAIN logs = {2}
    /\ logs[2].log_level = "error"

\* C23: the safe clears delete only their target rows.  clear_pending_items
\* removes exactly the pending and queued items of the given execution (of
\* all executions when none is given); clear_interrupted_items and
\* clear_interrupted_executions with allow_reprocess_check=True remove only
\* interrupted rows whose allow_reprocess is 0; every other row of both tables
\* is unchanged and the call returns the number of rows removed.
C23_SafeClearsOnlyTargets ==
    [][ret'.kind = "count" =>
          /\ \A e \in SafeExecInputs :
                clear_pending_items(e) =>
                    LET gone == {i \in DOMAIN items :
                                    /\ items[i].status \in {"pending", "queued"}
                                    /\ e = None \/ items[i].execution_id = e}
                    IN /\ DOMAIN items' = DOMAIN items \ gone
                       /\ \A i \in DOMAIN items' : items'[i] = items[i]
                       /\ executions' = executions
                       /\ ret'.val = <<Cardinality(gone)>>
          /\ \A e \in SafeExecInputs :
                clear_interrupted_items(e, TRUE) =>
                    LET gone == DOMAIN items \ DOMAIN items'
                    IN /\ DOMAIN items' \subseteq DOMAIN items
                       /\ \A i \in gone : /\ items[i].status = "interrupted"
                                          /\ items[i].allow_reprocess = 0
                                          /\ e = None \/ items[i].execution_id = e
                       /\ \A i \in DOMAIN items' : items'[i] = items[i]
                       /\ executions' = executions
                       /\ ret'.val = <<Cardinality(gone)>>
          /\ clear_interrupted_executions(TRUE) =>
                LET gone == DOMAIN executions \ DOMAIN executions'
                IN /\ DOMAIN executions' \subseteq DOMAIN executions
                   /\ \A e \in gone : /\ executions[e].status = "interrupted"
                                      /\ executions[e].allow_reprocess = 0
                   /\ \A e \in DOMAIN executions' :
                         executions'[e] = executions[e]
                   /\ items' = items
                   /\ ret'.val = <<Cardinality(gone)>>]_vars

\* C23 witness: a clear has removed one row (item 1) and the interrupted item
\* 2, whose allow_reprocess flag is set, is still in the table, next to an
\* interrupted execution with the flag cleared and one with the flag set.
C23_Witness ==
    /\ ret = RetCount(1)
    /\ DOMAIN items = {2}
    /\ items[2].status = "interrupted"
    /\ items[2].allow_reprocess = 1
    /\ DOMAIN executions = {1, 2}
    /\ executions[1].status = "interrupted" /\ executions[1].allow_reprocess = 0
    /\ executions[2].status = "interrupted" /\ executions[2].allow_reprocess = 1

\* C24: reprocess_interrupted_item(i) succeeds only when item i is
\* interrupted, its own allow_reprocess flag is set and the reprocess-items
\* policy is enabled.  It then sets the status to pending, clears started_at,
\* finished_at, the duration, the error message and the last checkpoint, and
\* raises retry_count by one, with every other column and row unchanged;
\* otherwise it raises and nothing is changed.
C24_ReprocessItem ==
    [][\A i \in 1..(RetryItems + 1) :
          reprocess_interrupted_item(i) =>
              IF /\ i \in DOMAIN items
                 /\ items[i].status = "interrupted"
                 /\ items[i].allow_reprocess = 1
                 /\ allow_reprocess_items
              THEN /\ ret' = RetTrue
                   /\ DOMAIN items' = DOMAIN items
                   /\ items'[i].status = "pending"
                   /\ items'[i].started_at = None
                   /\ items'[i].finished_at = None
                   /\ items'[i].execution_time_seconds = None
                   /\ items'[i].error_message = None
                   /\ items'[i].last_checkpoint = None
                   /\ items'[i].retry_count = items[i].retry_count + 1
                   /\ items'[i].execution_id = items[i].execution_id
                   /\ items'[i].priority = items[i].priority
                   /\ items'[i].queue_position = items[i].queue_position
                   /\ items'[i].allow_reprocess = items[i].allow_reprocess
                   /\ \A j \in DOMAIN items \ {i} : items'[j] = items[j]
                   /\ executions' = executions
              ELSE /\ ret' = Raised
                   /\ UNCHANGED store]_vars

\* C24 witness: item 1 has been reprocessed once (the call returned True): it
\* is pending with its processing fields cleared, no item is being processed
\* and no item holds a checkpoint, so the last call was not a start nor a
\* checkpoint update.
C24_Witness ==
    /\ ret = RetTrue
    /\ items[1].status = "pending"
    /\ items[1].retry_count = 1
    /\ items[1].started_at = None
    /\ items[1].finished_at = None
    /\ \A j \in DOMAIN items : /\ items[j].status # "processing"
                               /\ items[j].last_checkpoint = None

\* C25: a successful reprocess_interrupted_execution(orig, keep_items,
\* reset_items_status) leaves the items of orig unchanged; with keep_items it
\* gives the new execution one copy of every item of orig (same priority and
\* queue_position), pending when reset_items_status and with the original
\* status otherwise; without keep_items the new execution has no items.
C25_ReprocessCarriesItems ==
    [][ret'.kind = "id" =>
          \A orig \in ExecIds, k, r \in BOOLEAN :
             (/\ can_reprocess_execution(orig)
              /\ reprocess_interrupted_execution(orig, k, r)) =>
                 LET new == ret'.val[1]
                     src == {i \in DOMAIN items : items[i].execution_id = orig}
                     cp == {j \in DOMAIN items' :
                               items'[j].execution_id = new}
                 IN /\ \A i \in DOMAIN items : items'[i] = items[i]
                    /\ IF k
                       THEN /\ Cardinality(cp) = Cardinality(src)
                            /\ \A i \in src : \E j \in cp :
                                  /\ items'[j].priority = items[i].priority
                                  /\ items'[j].queue_position =
                                         items[i].queue_position
                                  /\ items'[j].status =
                                         IF r THEN "pending"
                                              ELSE items[i].status
                       ELSE cp = {}]_vars

\* C26: an item is created pending, and its status changes only along the
\* lifecycle: to processing only by start_processing_item from pending,
\* queued or interrupted; to success, failed or skipped only by finish_item;
\* to interrupted only by the sweep of a processing item; back to pending only
\* by reprocess_interrupted_item; and an item that is success, failed or
\* skipped never changes status again.
C26_StatusFollowsLifecycle ==
    [][/\ \A i \in DOMAIN items' \ DOMAIN items : items'[i].status = "pending"
       /\ \A i \in DOMAIN items \cap DOMAIN items' :
             items'[i].status # items[i].status =>
                /\ items[i].status \notin ItemFinishStatuses
                /\ items'[i].status = "processing" =>
                      /\ items[i].status \in StartableStatuses
                      /\ start_processing_item(i)
                /\ items'[i].status \in ItemFinishStatuses =>
                      finish_item(i, items'[i].status)
                /\ items'[i].status = "interrupted" =>
                      /\ items[i].status = "processing"
                      /\ detect_and_mark_interrupted_items
                /\ items'[i].status = "pending" =>
                      reprocess_interrupted_item(i)
                /\ items'[i].status \in
                      ItemFinishStatuses \cup
                          {"processing", "interrupted", "pending"}]_vars

\* C27: clear_database(confirm=True) empties the tables in the order items,
\* logs, executions: no step of it removes an execution row that an item or a
\* log still refers to, and when it returns the three tables are empty.
C27_WipeOrder ==
    [][worker.pc = "clear_database" =>
          /\ \A e \in DOMAIN executions \ DOMAIN executions' :
                /\ \A i \in DOMAIN items : items[i].execution_id # e
                /\ \A l \in DOMAIN logs : logs[l].execution_id # e
          /\ worker'.pc = "idle" =>
                /\ ret' = RetTrue
                /\ items' = <<>>
                /\ logs' = <<>>
                /\ executions' = <<>>]_vars

\* C27 witness: the wipe has removed the items and the logs and is about to
\* remove executions that had both.
C27_Witness ==
    /\ worker.pc = "clear_database"
    /\ worker.item = 3
    /\ Cardinality(DOMAIN executions) = EraseExecs
    /\ nextItemId > 1
    /\ nextLogId > 1
    /\ items = <<>>
    /\ logs = <<>>

\* C28: after a successful finish_execution(e, status) the row of e has the
\* given status, finished_properly = 1, total_items equal to the number of its
\* item rows, and successful_items, failed_items and interrupted_items equal
\* to the numbers of its items with those statuses (0 for an execution that
\* has no items), their sum at most total_items.
C28_FinishCounters ==
    [][ret'.kind = "true" =>
          \A e \in DOMAIN executions, s \in FinishStatuses :
             finish_execution(e, s) =>
                LET row == executions'[e]
                    Count(st) == Cardinality({i \in ItemsOf(e) :
                                                 items[i].status = st})
                IN /\ row.status = s
                   /\ row.finished_properly = 1
                   /\ row.total_items = Cardinality(ItemsOf(e))
                   /\ row.successful_items = Count("success")
                   /\ row.failed_items = Count("failed")
                   /\ row.interrupted_items = Count("interrupted")
                   /\ row.successful_items + row.failed_items
                          + row.interrupted_items <= row.total_items]_vars

\* C29: a successful finish_execution(e) clears the current-execution marker
\* when the marker equals e and leaves it when it names another execution;
\* start_execution sets the marker to the execution it creates; and the marker
\* changes in no step other than one of start_execution, finish_execution and
\* a successful reprocess_interrupted_execution.
C29_MarkerWrites ==
    [][/\ ret'.kind = "true" =>
             \A e \in 1..MarkerExecs, s \in FinishStatuses :
                finish_execution(e, s) =>
                   current' = IF current = e THEN None ELSE current
       /\ start_execution =>
             /\ current' = ret'.val[1]
             /\ current' \in DOMAIN executions' \ DOMAIN executions
       /\ current' # current =>
             \/ start_execution
             \/ \E e \in 1..MarkerExecs, s \in FinishStatuses :
                   finish_execution(e, s) /\ ret' = RetTrue
             \/ \E e \in 1..MarkerExecs, k, r \in BOOLEAN :
                   /\ can_reprocess_execution(e)
                   /\ reprocess_interrupted_execution(e, k, r)]_vars

\* C29 witness: execution 1 was finished by a call that returned True while
\* the marker named execution 2, and the marker still names it.
C29_Witness ==
    /\ ret = RetTrue
    /\ items = <<>>
    /\ nextExecId = 3
    /\ current = 2
    /\ DOMAIN executions = {1, 2}
    /\ executions[1].status = "completed"
    /\ executions[2].status = "running"

\* The two status filters a dequeue can use.
C30_Filters == {StatusFilter("True"), StatusFilter("False")}

\* A step of get_next_item_from_queue changes no table and no marker; the row
\* it returns is eligible and keeps its status; and the state it leaves admits
\* that one result only, so a second call made at once returns the same item.
C30_Frame ==
    \A e \in PeekExecInputs, inc \in IncludeInputs :
       (ret'.kind \in {"id", "none"} /\ get_next_item_from_queue(e, inc)) =>
          /\ store' = store
          /\ current' = current
          /\ \A i \in QueueHead(e, inc) : ret' = RetId(i)
          /\ QueueHead(e, inc) = {} => ret' = RetNone
          /\ ret'.kind = "id" =>
                /\ items[ret'.val[1]].status \in StatusFilter(inc)
                /\ items'[ret'.val[1]].status = items[ret'.val[1]].status

\* Item i is eligible under filter f before the step and not after it.
C30_Leaves(i, f) ==
    /\ items[i].status \in f
    /\ i \in DOMAIN items' => items'[i].status \notin f

\* An item that is processing is not eligible, and becomes eligible again only
\* through the sweep (interrupted) and reprocess_interrupted_item (pending).
C30_ProcessingReturns ==
    \A i \in DOMAIN items \cap DOMAIN items' :
       /\ "processing" \notin UNION C30_Filters
       /\ (/\ items[i].status = "processing"
           /\ items'[i].status \in UNION C30_Filters) =>
              /\ detect_and_mark_interrupted_items
              /\ items'[i].status = "interrupted"
       /\ (/\ items[i].status \notin {"pending", "queued"}
           /\ items'[i].status \in {"pending", "queued"}) =>
              /\ items[i].status = "interrupted"
              /\ reprocess_interrupted_item(i)

\* C30 as stated: get_next_item_from_queue changes no state, two consecutive
\* calls return the same item, start_processing_item is the only operation
\* after which an item is no longer eligible, and a processing item is not
\* returned until a sweep or a reprocess makes it eligible again.
C30_AsClaimed ==
    [][/\ C30_Frame
       /\ items' # items =>
             /\ C30_ProcessingReturns
             /\ \A i \in DOMAIN items, f \in C30_Filters :
                   C30_Leaves(i, f) => start_processing_item(i)]_vars

\* C30 (amended): get_next_item_from_queue changes no state, two consecutive
\* calls return the same item, and a processing item is not returned until a
\* sweep or a reprocess makes it eligible again; an item stops being eligible
\* by start_processing_item, by finish_item, or by the deletion of its row.
C30_DequeueChangesNothing ==
    [][/\ C30_Frame
       /\ items' # items =>
             /\ C30_ProcessingReturns
             /\ \A i \in DOMAIN items, f \in C30_Filters :
                   C30_Leaves(i, f) =>
                      \/ i \notin DOMAIN items'
                      \/ start_processing_item(i)
                      \/ \E s \in ItemFinishStatuses : finish_item(i, s)]_vars

\* C30 witness: the dequeue has returned the pending item 1 while item 2, of
\* higher priority, is being processed; item 1 is still pending.
C30_Witness ==
    /\ ret = RetId(1)
    /\ DOMAIN items = {1, 2}
    /\ items[1].status = "pending"
    /\ items[2].status = "processing"
    /\ items[2].priority > items[1].priority

\* C31: with two workers nothing prevents double dispatch.  A dequeue returns
\* the head of the queue whatever item the other worker has received, and
\* every start_processing_item of a received item returns True, also when the
\* other worker has started the item already; the state in which both workers
\* hold the same started item is reachable (C31_Witness).
C31_NothingPreventsDoubleDispatch ==
    [][\A w \in RaceWorkers :
          /\ RaceDequeue(w) =>
                IF QueueHead(current, "None") = {}
                THEN ret' = RetNone
                ELSE /\ ret'.kind = "id"
                     /\ ret'.val[1] \in QueueHead(current, "None")
          /\ RaceStart(w) =>
                /\ ret' = RetTrue
                /\ worker'[w].pc = "finish"
                /\ items'[worker[w].item].status =
                       IF items[worker[w].item].status \in StartableStatuses
                       THEN "processing"
                       ELSE items[worker[w].item].status]_vars

\* C31 witness: both workers received the same item, both calls of
\* start_processing_item returned True, and both are processing it.
C31_Witness ==
    /\ \A w \in RaceWorkers : worker[w].pc = "finish"
    /\ worker[1].item = worker[2].item
    /\ items[worker[1].item].status = "processing"

\* C32: the queue positions and the ids add_items returns are right only
\* without a concurrent inserter.  When no row was inserted into the execution
\* between a call's read of max(queue_position) and its INSERT, its rows take
\* positions no other row has; when the rows at or after its start position
\* are its own, add_items returns exactly the ids it inserted, in order.  With
\* a second caller in between, two items get the same position and add_items
\* returns an id of a row of the other caller (C32_Witness).
C32_InsertersInterfere ==
    [][\A c \in InsertCallers :
          LET own == worker[c].first_id..(worker[c].first_id + worker[c].n - 1)
          IN /\ (/\ InsertRows(c)
                 /\ worker[c].start_position = MaxQueuePosition(current) + 1) =>
                    \A i \in DOMAIN items' \ DOMAIN items, j \in DOMAIN items' :
                       i # j => items'[i].queue_position
                                   # items'[j].queue_position
             /\ (/\ InsertReturn(c)
                 /\ worker[c].method = "add_items"
                 /\ \A j \in ItemsOf(current) :
                       items[j].queue_position >= worker[c].start_position
                          => j \in own) =>
                    ret' = RetIds([k \in 1..worker[c].n |->
                                      worker[c].first_id + k - 1])]_vars

\* C32 witness: add_items has returned an id of a row it did not insert, and
\* two items of the execution have the same queue position.
C32_Witness ==
    /\ \E c \in InsertCallers :
          /\ worker[c].pc = "done"
          /\ worker[c].method = "add_items"
          /\ \E k \in 1..Len(worker[c].ids) :
                \/ worker[c].ids[k] < worker[c].first_id
                \/ worker[c].ids[k] >= worker[c].first_id + worker[c].n
    /\ \E i, j \in ItemsOf(current) :
          i # j /\ items[i].queue_position = items[j].queue_position

\* C33: the construction of a second engine on the same store, auto-detect
\* enabled, while this engine is alive leaves every execution that is running
\* running, and the status of an execution changes only by finish_execution.
C33_LiveExecutionStaysRunning ==
    [][/\ \A a \in BOOLEAN :
             OpenSecondEngine(a) =>
                \A e \in DOMAIN executions :
                   executions[e].status = "running" =>
                      executions'[e].status = "running"
       /\ \A e \in DOMAIN executions :
             executions'[e].status # executions[e].status =>
                \E s \in FinishStatuses : finish_execution(e, s)]_vars

\* C34: the handlers and the sweeps are idempotent on the rows.  A handler
\* changes no row but the one the marker names and no item, and the UPDATE it
\* runs changes nothing when run again on the rows it leaves; a sweep leaves
\* no row it would update, and a sweep that finds no such row changes nothing.
C34_TeardownIdempotent ==
    [][/\ (HandleExit \/ HandleSignal) =>
             /\ \A e \in DOMAIN executions :
                   e # current => executions'[e] = executions[e]
             /\ items' = items
             /\ current' = current
             /\ Truthy(current) =>
                   MarkExecutionInterrupted(current)' = executions'
       /\ detect_and_mark_interrupted_executions =>
             /\ SweepTargets' = {}
             /\ SweepTargets = {} => executions' = executions
             /\ items' = items
       /\ detect_and_mark_interrupted_items =>
             /\ \A i \in DOMAIN items' : items'[i].status # "processing"
             /\ (\A i \in DOMAIN items : items[i].status # "processing")
                   => items' = items
             /\ executions' = executions]_vars

\* C34 witness: a handler has fired while execution 2 was current and
\* execution 1 was still running: execution 2 is interrupted, execution 1 is
\* untouched.
C34_Witness ==
    /\ ret = RetNone
    /\ current = 2
    /\ DOMAIN executions = {1, 2}
    /\ executions[2].status = "interrupted"
    /\ executions[1].status = "running"

C36_FinishItemCountsOwnItems ==
    [][\A i \in DOMAIN items :
          (/\ ret' = RetTrue
           /\ DOMAIN items' = DOMAIN items
           /\ items'[i] # items[i]
           /\ items'[i].status \in ItemFinishStatuses) =>
             LET e == items[i].execution_id
                 own(s) == Cardinality({j \in DOMAIN items' :
                              /\ items'[j].execution_id = e
                              /\ items'[j].status = s})
             IN  /\ executions'[e].successful_items = own("success")
                 /\ executions'[e].failed_items = own("failed")
                 /\ \A x \in DOMAIN executions \ {e} :
                       executions'[x] = executions[x]
                 /\ executions'[e].successful_items
                       + executions'[e].failed_items
                          <= Cardinality({j \in DOMAIN items' :
                                items'[j].execution_id = e})]_vars

\* C37: whenever the process-local current-execution marker is set it names
\* an existing execution row whose status is running.
C37_MarkerNamesRunning ==
    Truthy(current) =>
        /\ current \in DOMAIN executions
        /\ executions[current].status = "running"

\* C38: when the exit hook or a termination signal fires, every execution
\* started through the engine and not finished (still running) is interrupted
\* afterwards, also when a second execution was started before the first was
\* finished or when the later one was finished first.
C38_HandlerInterruptsEveryUnfinished ==
    [][(HandleExit \/ HandleSignal) =>
          \A e \in DOMAIN executions :
             executions[e].status = "running" =>
                executions'[e].status = "interrupted"]_vars

\* C39: start_processing_item returns True only when it moved the item to
\* processing: for an item that does not exist or whose status is not
\* pending, queued or interrupted the result is not True.
C39_StartReportsTransition ==
    [][\A i \in 1..LifeItems :
          (start_processing_item(i) /\ ret' = RetTrue) =>
             /\ i \in DOMAIN items
             /\ items[i].status \in StartableStatuses
             /\ items'[i].status = "processing"]_vars

\* C40: a single worker repeating get_next_item_from_queue,
\* start_processing_item and finish_item on one execution, with nothing
\* added, swept or reprocessed meanwhile, serves each eligible item exactly
\* once (no item twice, no item that was not eligible, none left eligible at
\* the end) and eventually receives None, after as many rounds as there were
\* eligible items.
C40_WorkerDrainsQueue ==
    /\ [](\A m, n \in 1..Len(worker.served) :
             worker.served[m] = worker.served[n] => m = n)
    /\ [](\A n \in 1..Len(worker.served) :
             /\ worker.served[n] \in DOMAIN items
             /\ Truthy(items[worker.served[n]].started_at))
    /\ [](worker.pc = "done" =>
             /\ QueueHead(current, "None") = {}
             /\ {worker.served[n] : n \in 1..Len(worker.served)}
                   = {i \in DOMAIN items : Truthy(items[i].started_at)}
             /\ Len(worker.served)
                   = Cardinality({i \in DOMAIN items :
                                     Truthy(items[i].started_at)}))
    /\ (worker.pc = "dequeue") ~> (worker.pc = "done")

\* C40 witness: the loop has ended after two rounds on an execution that
\* holds three items, one of which was finished before the loop began and
\* was not served.
C40_Witness ==
    /\ worker.pc = "done"
    /\ ret = RetNone
    /\ Len(worker.served) = 2
    /\ Cardinality(DOMAIN items) = 3
    /\ \E i \in DOMAIN items :
          /\ items[i].status = "skipped"
          /\ ~Truthy(items[i].started_at)

====
